---- MODULE Spec2Model ----
(***************************************************************************)
(* A model of awesome-bot (src/src/lib.rs): the route registry (muxers),   *)
(* the command-pattern compiler (modify_command), the per-message dispatch *)
(* (handle_message and the handle_*_msg functions built from              *)
(* muxer_match!), and the thread pool wiring of simple_start.              *)
(*                                                                         *)
(* Strings are sequences of one-character strings, so that the string      *)
(* operations of modify_command and the regular expressions act on         *)
(* characters as the code does.                                            *)
(***************************************************************************)
EXTENDS Integers, Sequences, FiniteSets, TLC

\* ------------------------------------------------------------------ bounds

\* Longest shorthand given to modify_command in SpecCompile.
MaxLen == 4
\* Most routes registered before a dispatch in Spec.
MaxRoutes == 2

\* ----------------------------------------------------------------- strings

starts_with(s, p) ==
    /\ Len(p) <= Len(s)
    /\ SubSeq(s, 1, Len(p)) = p

ends_with(s, p) ==
    /\ Len(p) <= Len(s)
    /\ SubSeq(s, Len(s) - Len(p) + 1, Len(s)) = p

\* The characters str::split_whitespace splits on, among those of the model.
IsWhitespace(c) == c \in {" ", "\t"}

RECURSIVE SplitFrom(_, _, _, _)
\* Walks s from index i; cur is the token being read, acc the tokens read.
SplitFrom(s, i, cur, acc) ==
    IF i > Len(s) THEN (IF cur = <<>> THEN acc ELSE Append(acc, cur))
    ELSE IF IsWhitespace(s[i])
         THEN SplitFrom(s, i + 1, <<>>, IF cur = <<>> THEN acc ELSE Append(acc, cur))
         ELSE SplitFrom(s, i + 1, Append(cur, s[i]), acc)

\* s.split_whitespace().collect(): the non-empty maximal runs of
\* non-whitespace characters, in order.
split_whitespace(s) == SplitFrom(s, 1, <<>>, <<>>)

RECURSIVE connect(_, _)
\* words.connect(sep): the words joined with sep between neighbours.
connect(words, sep) ==
    IF words = <<>> THEN <<>>
    ELSE IF Len(words) = 1 THEN words[1]
    ELSE words[1] \o sep \o connect(Tail(words), sep)

\* Plausible slip: the username group is not optional.
FormatCommand_NoOption(comm, username, lastchar) ==
    comm \o <<"(", "?", ":", "@">> \o username \o <<")">> \o lastchar

\* Plausible slip: the username group is a capturing one.
FormatCommand_Capturing(comm, username, lastchar) ==
    comm \o <<"(", "@">> \o username \o <<")", "?">> \o lastchar

\* format!("{}(?:@{})?{}", comm, username, lastchar)
FormatCommand(comm, username, lastchar) ==
    comm \o <<"(", "?", ":", "@">> \o username \o <<")", "?">> \o lastchar

\* --------------------------------------------------------- modify_command

\* Plausible slip: the `^` insertion is forgotten when a `/` was given.
modify_command_NoCaret(orig, username) ==
    LET s == orig
        words0 == split_whitespace(s)
        words ==
            IF Len(words0) >= 1
            THEN LET comm0 == Head(words0)
                     dollar == ends_with(comm0, <<"$">>)
                     lastchar == IF dollar THEN <<"$">> ELSE <<>>
                     comm == IF dollar THEN SubSeq(comm0, 1, Len(comm0) - 1) ELSE comm0
                 IN  <<FormatCommand(comm, username, lastchar)>> \o Tail(words0)
            ELSE words0
        ns0 == connect(words, <<" ">>)
        ns1 == IF ~starts_with(ns0, <<"^", "/">>)
               THEN IF ~starts_with(ns0, <<"/">>) THEN <<"^", "/">> \o ns0 ELSE ns0
               ELSE ns0
    IN  IF ~ends_with(ns1, <<"$">>) THEN ns1 \o <<"$">> ELSE ns1

\* Plausible slip: the words are put together again without the space.
modify_command_Concat(orig, username) ==
    LET s == orig
        words0 == split_whitespace(s)
        words ==
            IF Len(words0) >= 1
            THEN LET comm0 == Head(words0)
                     dollar == ends_with(comm0, <<"$">>)
                     lastchar == IF dollar THEN <<"$">> ELSE <<>>
                     comm == IF dollar THEN SubSeq(comm0, 1, Len(comm0) - 1) ELSE comm0
                 IN  <<FormatCommand(comm, username, lastchar)>> \o Tail(words0)
            ELSE words0
        ns0 == connect(words, <<>>)
        withSlash == IF ~starts_with(ns0, <<"/">>) THEN <<"/">> \o ns0 ELSE ns0
        ns1 == IF ~starts_with(ns0, <<"^", "/">>)
               THEN IF ~starts_with(s, <<"^">>) THEN <<"^">> \o withSlash ELSE withSlash
               ELSE ns0
    IN  IF ~ends_with(ns1, <<"$">>) THEN ns1 \o <<"$">> ELSE ns1

\* Plausible slip: the `^` insertion looks at the string being built, not
\* at the shorthand.
modify_command_GateOnJoined(orig, username) ==
    LET s == orig
        words0 == split_whitespace(s)
        words ==
            IF Len(words0) >= 1
            THEN LET comm0 == Head(words0)
                     dollar == ends_with(comm0, <<"$">>)
                     lastchar == IF dollar THEN <<"$">> ELSE <<>>
                     comm == IF dollar THEN SubSeq(comm0, 1, Len(comm0) - 1) ELSE comm0
                 IN  <<FormatCommand(comm, username, lastchar)>> \o Tail(words0)
            ELSE words0
        ns0 == connect(words, <<" ">>)
        withSlash == IF ~starts_with(ns0, <<"/">>) THEN <<"/">> \o ns0 ELSE ns0
        ns1 == IF ~starts_with(ns0, <<"^", "/">>)
               THEN IF ~starts_with(withSlash, <<"^">>) THEN <<"^">> \o withSlash ELSE withSlash
               ELSE ns0
    IN  IF ~ends_with(ns1, <<"$">>) THEN ns1 \o <<"$">> ELSE ns1

\* Plausible slip: a shorthand without words goes on as it was given.
modify_command_KeepBlank(orig, username) ==
    LET s == orig
        words0 == split_whitespace(s)
        ns0 ==
            IF Len(words0) >= 1
            THEN LET comm0 == Head(words0)
                     dollar == ends_with(comm0, <<"$">>)
                     lastchar == IF dollar THEN <<"$">> ELSE <<>>
                     comm == IF dollar THEN SubSeq(comm0, 1, Len(comm0) - 1) ELSE comm0
                 IN  connect(<<FormatCommand(comm, username, lastchar)>> \o Tail(words0), <<" ">>)
            ELSE s
        withSlash == IF ~starts_with(ns0, <<"/">>) THEN <<"/">> \o ns0 ELSE ns0
        ns1 == IF ~starts_with(ns0, <<"^", "/">>)
               THEN IF ~starts_with(s, <<"^">>) THEN <<"^">> \o withSlash ELSE withSlash
               ELSE ns0
    IN  IF ~ends_with(ns1, <<"$">>) THEN ns1 \o <<"$">> ELSE ns1

\* AwesomeBot::modify_command(orig, username)
modify_command(orig, username) ==
    LET s == orig
        words0 == split_whitespace(s)
        words ==
            IF Len(words0) >= 1
            THEN LET comm0 == Head(words0)               \* words.remove(0)
                     dollar == ends_with(comm0, <<"$">>)
                     lastchar == IF dollar THEN <<"$">> ELSE <<>>
                     comm == IF dollar THEN SubSeq(comm0, 1, Len(comm0) - 1) ELSE comm0
                 IN  <<FormatCommand(comm, username, lastchar)>> \o Tail(words0)
            ELSE words0
        ns0 == connect(words, <<" ">>)
        withSlash == IF ~starts_with(ns0, <<"/">>) THEN <<"/">> \o ns0 ELSE ns0
        ns1 == IF ~starts_with(ns0, <<"^", "/">>)
               THEN IF ~starts_with(s, <<"^">>) THEN <<"^">> \o withSlash ELSE withSlash
               ELSE ns0
    IN  IF ~ends_with(ns1, <<"$">>) THEN ns1 \o <<"$">> ELSE ns1

\* ------------------------------------------------------------------ regex
(***************************************************************************)
(* The part of the regex crate's syntax the routes use: literal            *)
(* characters, `.`, the anchors `^` and `$`, capturing groups `( )`,       *)
(* non-capturing groups `(?: )` and the greedy postfix operators `?`, `*`  *)
(* and `+`.  A pattern is parsed into a tree; matching is leftmost-first   *)
(* (the order of the crate): the results of matching a node are listed in  *)
(* the order a backtracking matcher tries them.                            *)
(*                                                                         *)
(* A node is [t, c, g, xs]: t the kind, c the literal character, g the     *)
(* capture index of a group (0: non-capturing), xs the nodes inside.       *)
(***************************************************************************)
Node(t, c, g, xs) == [t |-> t, c |-> c, g |-> g, xs |-> xs]

ParseError == [ok |-> FALSE, xs |-> <<>>, i |-> 0, n |-> 0]

RepKind(c) == IF c = "?" THEN "opt" ELSE IF c = "*" THEN "star" ELSE "plus"

RECURSIVE ParseItems(_, _, _, _)
\* Parses the items of p from index i up to the end or an unmatched `)`;
\* acc holds the items read, n the number of capturing groups opened.
ParseItems(p, i, acc, n) ==
    IF i > Len(p) \/ p[i] = ")"
    THEN [ok |-> TRUE, xs |-> acc, i |-> i, n |-> n]
    ELSE IF p[i] \in {"?", "*", "+"}
    THEN IF acc = <<>>
         THEN ParseError                      \* nothing to repeat
         ELSE ParseItems(p, i + 1,
                  [acc EXCEPT ![Len(acc)] = Node(RepKind(p[i]), "", 0, <<@>>)], n)
    ELSE IF p[i] = "("
    THEN LET flag == i + 1 <= Len(p) /\ p[i + 1] = "?"
             noncap == flag /\ i + 2 <= Len(p) /\ p[i + 2] = ":"
             g == IF noncap THEN 0 ELSE n + 1
             inner == ParseItems(p, IF noncap THEN i + 3 ELSE i + 1, <<>>,
                                 IF noncap THEN n ELSE n + 1)
         IN  IF (flag /\ ~noncap) \/ ~inner.ok \/ inner.i > Len(p)
             THEN ParseError                  \* unknown flag or unclosed group
             ELSE ParseItems(p, inner.i + 1,
                      Append(acc, Node("grp", "", g, inner.xs)), inner.n)
    ELSE LET t == IF p[i] = "." THEN "any"
                  ELSE IF p[i] = "^" THEN "bol"
                  ELSE IF p[i] = "$" THEN "eol" ELSE "lit"
         IN  ParseItems(p, i + 1, Append(acc, Node(t, p[i], 0, <<>>)), n)

\* Regex::new(pattern): Ok (the parsed pattern, n capturing groups) or Err.
Regex_new(p) ==
    LET r == ParseItems(p, 1, <<>>, 0)
    IN  IF r.ok /\ r.i > Len(p) THEN r ELSE ParseError   \* a stray `)` is an error

RECURSIVE Flat(_)
\* The concatenation of a sequence of sequences.
Flat(ss) == IF ss = <<>> THEN <<>> ELSE Head(ss) \o Flat(Tail(ss))

RECURSIVE MNode(_, _, _), MSeq(_, _, _, _)
\* The states [pos, caps] after matching node x on text from state st, in
\* the matcher's order of preference (greedy first).
MNode(x, text, st) ==
    CASE x.t = "lit" ->
           IF st.pos < Len(text) /\ text[st.pos + 1] = x.c
           THEN <<[st EXCEPT !.pos = @ + 1]>> ELSE <<>>
      [] x.t = "any" ->
           IF st.pos < Len(text) /\ text[st.pos + 1] # "\n"
           THEN <<[st EXCEPT !.pos = @ + 1]>> ELSE <<>>
      [] x.t = "bol" -> IF st.pos = 0 THEN <<st>> ELSE <<>>
      [] x.t = "eol" -> IF st.pos = Len(text) THEN <<st>> ELSE <<>>
      [] x.t = "grp" ->
           LET rs == MSeq(x.xs, 1, text, st)
           IN  IF x.g = 0 THEN rs
               ELSE [k \in 1..Len(rs) |->
                        [rs[k] EXCEPT !.caps[x.g] = <<st.pos, rs[k].pos>>]]
      [] x.t = "opt" -> MNode(x.xs[1], text, st) \o <<st>>
      [] x.t = "star" ->
           LET once == SelectSeq(MNode(x.xs[1], text, st), LAMBDA r : r.pos > st.pos)
           IN  Flat([k \in 1..Len(once) |-> MNode(x, text, once[k])]) \o <<st>>
      [] x.t = "plus" ->
           LET once == MNode(x.xs[1], text, st)
               star == Node("star", "", 0, x.xs)
           IN  Flat([k \in 1..Len(once) |-> MNode(star, text, once[k])])

\* The same for the items xs[k..] one after another.
MSeq(xs, k, text, st) ==
    IF k > Len(xs) THEN <<st>>
    ELSE LET rs == MNode(xs[k], text, st)
         IN  Flat([j \in 1..Len(rs) |-> MSeq(xs, k + 1, text, rs[j])])

\* The matches of the compiled pattern r that start at position s of text.
MatchesAt(r, text, s) ==
    MSeq(r.xs, 1, text, [pos |-> s, caps |-> [g \in 1..r.n |-> <<>>]])

\* Regex::is_match: the pattern matches somewhere in text.
is_match(r, text) == \E s \in 0..Len(text) : MatchesAt(r, text, s) # <<>>

\* Plausible slip: the groups that are not set are left out of the list.
captures_vec_SkipUnset(r, text) ==
    LET starts == {s \in 0..Len(text) : MatchesAt(r, text, s) # <<>>}
        s0 == CHOOSE s \in starts : \A q \in starts : s <= q
        m == MatchesAt(r, text, s0)[1]
        set == SelectSeq([g \in 1..r.n |-> m.caps[g]], LAMBDA se : se # <<>>)
    IN  <<SubSeq(text, s0 + 1, m.pos)>>
        \o [g \in 1..Len(set) |-> SubSeq(text, set[g][1] + 1, set[g][2])]

\* Regex::captures(text).iter().map(|x| x.unwrap_or("")): the groups of the
\* leftmost match, group 0 the whole match, an unset group as "".
captures_vec(r, text) ==
    LET starts == {s \in 0..Len(text) : MatchesAt(r, text, s) # <<>>}
        s0 == CHOOSE s \in starts : \A q \in starts : s <= q
        m == MatchesAt(r, text, s0)[1]
        Sub(se) == IF se = <<>> THEN <<>> ELSE SubSeq(text, se[1] + 1, se[2])
    IN  <<SubSeq(text, s0 + 1, m.pos)>> \o [g \in 1..r.n |-> Sub(m.caps[g])]

\* ------------------------------------------------------------------ state

VARIABLES
    username,   \* AwesomeBot.username
    muxers,     \* AwesomeBot.muxers: the routes, in registration order
    phase,      \* "setup": routes are being registered; "running": in simple_start
    call,       \* the last call of the registration surface: [fn, arg, res]
    msg,        \* the message handle_message was last called with, or NoMsg
    trace,      \* the handler invocations of that handle_message call, in order
    result,     \* how that call ended: "none", "returned" or "panicked"
    queue,      \* the pool's job channel: NewJob and Join messages, in order
    running,    \* the jobs the pool's threads are executing
    alive,      \* the number of pool threads that have not ended
    joined,     \* the number of pool threads parked on a Join message
    received,   \* the number of updates the listener has delivered
    submitted,  \* the number of scoped.execute calls that have returned
    started,    \* the number of jobs a pool thread has taken
    builder,    \* the send builder a handler is working with, or NoBuilder
    outbox      \* the requests made to the Api by end(), in order

vars == <<username, muxers, phase, call, msg, trace, result,
          queue, running, alive, joined, received, submitted, started,
          builder, outbox>>

poolVars == <<queue, running, alive, joined, received, submitted, started>>

\* Pool::new(4)
PoolSize == 4

sendVars == <<builder, outbox>>

\* Option<T>: None, or Some(v).
None == <<>>

Some(v) == <<v>>

\* No send builder has been made.
NoBuilder == [type |-> "None", chat_id |-> 0, reply_markup |-> None]

NoSend ==
    /\ builder = NoBuilder
    /\ outbox = <<>>

\* ----------------------------------------------------------------- inputs

Usernames == {<<"b">>}

\* Patterns given to command, simple_command, regex and simple_regex:
\* a one-word command and a pattern that does not compile.
Patterns == {<<"t">>, <<"(">>}

\* Texts of inbound text messages.
Texts == {<<"/", "t">>, <<"/", "t", "@", "b">>, <<"x", "/", "t">>}

ChatKinds == {"Private", "Group", "Channel"}

\* The value a variant of MessageType carries: DeleteChatPhoto and
\* GroupChatCreated carry none, the title of NewChatTitle is a string (one
\* that the command routes would take), the others a value of their own
\* type.
Payload(k) ==
    CASE k = "NewChatTitle" -> <<"/", "t">>
      [] k \in {"DeleteChatPhoto", "GroupChatCreated"} -> <<>>
      [] OTHER -> <<k>>

\* telegram_bot::MessageType, each variant with one payload value.
MessageTypes ==
    {[t |-> "Text", v |-> x] : x \in Texts}
    \cup {[t |-> k, v |-> Payload(k)] :
            k \in {"Audio", "Voice", "Photo", "File", "Sticker", "Video", "Contact",
                   "Location", "NewChatParticipant", "LeftChatParticipant",
                   "NewChatTitle", "NewChatPhoto", "DeleteChatPhoto",
                   "GroupChatCreated"}}

\* telegram_bot::Message: the payload and the chat it came from.
Messages == [msg : MessageTypes, chat : ChatKinds]

NoMsg == [msg |-> [t |-> "None", v |-> <<>>], chat |-> "None"]

\* --------------------------------------------------------------- registry

\* A Muxer value: the variant, the source of its Regex (<<>> for the
\* variants without one) and the handler it shares.
Muxer(kind, re, f) == [kind |-> kind, re |-> re, f |-> f]

\* The handler given to a registration call: the closures passed by the
\* program are told apart by the number of the route they end up in.
NewHandler(ms) == Len(ms) + 1

\* Plausible slip: the new route is put in front of the registry.
add_muxer_Front(ms, kind, re) == <<Muxer(kind, re, NewHandler(ms))>> \o ms

\* add_muxer!: $_self.muxers.push($mux($($extra,)* fa.clone()))
add_muxer(ms, kind, re) == Append(ms, Muxer(kind, re, NewHandler(ms)))

\* Plausible slip: a route is added whether or not the pattern compiled.
RegisterPattern_Always(ms, kind, nr) == add_muxer(ms, kind, nr)

\* match Regex::new(nr) { Ok(r) => add_muxer!(..., [r]), Err(_) => self }
RegisterPattern(ms, kind, nr) ==
    IF Regex_new(nr).ok THEN add_muxer(ms, kind, nr) ELSE ms

Called(fn, arg) == [fn |-> fn, arg |-> arg, res |-> "self"]

\* Plausible slip: the registry behind a lock, so that a route can be
\* added while the bot runs.
RegistrationFrame_Anytime ==
    /\ msg' = NoMsg /\ trace' = <<>> /\ result' = "none"
    /\ UNCHANGED sendVars
    /\ UNCHANGED <<username, phase>>
    /\ UNCHANGED poolVars

\* What every registration call leaves alone.
RegistrationFrame ==
    /\ phase = "setup"
    /\ msg' = NoMsg /\ trace' = <<>> /\ result' = "none"
    /\ UNCHANGED sendVars
    /\ UNCHANGED <<username, phase>>
    /\ UNCHANGED poolVars

\* A registration call that compiles `nr` and adds a route of variant kind.
PatternCall(fn, kind, pattern, nr) ==
    /\ RegistrationFrame
    /\ Regex_new(nr).ok => Len(muxers) < MaxRoutes
    /\ muxers' = RegisterPattern(muxers, kind, nr)
    /\ call' = Called(fn, pattern)

\* A registration call that adds a route of a variant without a Regex.
PlainCall(fn, kind) ==
    /\ RegistrationFrame
    /\ Len(muxers) < MaxRoutes
    /\ muxers' = add_muxer(muxers, kind, <<>>)
    /\ call' = Called(fn, <<>>)

command ==
    \E pattern \in Patterns :
        PatternCall("command", "PatternMux", pattern, modify_command(pattern, username))

simple_command ==
    \E pattern \in Patterns :
        PatternCall("simple_command", "TextMux", pattern, modify_command(pattern, username))

\* Plausible slip: regex compiles its pattern as command does.
regex_Transformed ==
    \E pattern \in Patterns :
        PatternCall("regex", "PatternMux", pattern, modify_command(pattern, username))

regex ==
    \E pattern \in Patterns : PatternCall("regex", "PatternMux", pattern, pattern)

simple_regex ==
    \E pattern \in Patterns : PatternCall("simple_regex", "TextMux", pattern, pattern)

any_fn == PlainCall("any_fn", "AnyMux")
photo_fn == PlainCall("photo_fn", "PhotoMux")
video_fn == PlainCall("video_fn", "VideoMux")
document_fn == PlainCall("document_fn", "DocumentMux")
sticker_fn == PlainCall("sticker_fn", "StickerMux")
audio_fn == PlainCall("audio_fn", "AudioMux")
voice_fn == PlainCall("voice_fn", "VoiceMux")
all_music_fn == PlainCall("all_music_fn", "GeneralAudioMux")
contact_fn == PlainCall("contact_fn", "ContactMux")
location_fn == PlainCall("location_fn", "LocationMux")
new_participant_fn == PlainCall("new_participant_fn", "NewParticipantMux")
left_participant_fn == PlainCall("left_participant_fn", "LeftParticipantMux")
new_title_fn == PlainCall("new_title_fn", "NewTitleMux")
new_chat_photo_fn == PlainCall("new_chat_photo_fn", "NewChatPhotoMux")
delete_chat_photo_fn == PlainCall("delete_chat_photo_fn", "DeleteChatPhotoMux")
group_chat_created_fn == PlainCall("group_chat_created_fn", "GroupChatCreatedMux")

Register ==
    \/ command \/ simple_command \/ regex \/ simple_regex
    \/ any_fn \/ photo_fn \/ video_fn \/ document_fn \/ sticker_fn
    \/ audio_fn \/ voice_fn \/ all_music_fn \/ contact_fn \/ location_fn
    \/ new_participant_fn \/ left_participant_fn \/ new_title_fn
    \/ new_chat_photo_fn \/ delete_chat_photo_fn \/ group_chat_created_fn

\* --------------------------------------------------------------- dispatch
(***************************************************************************)
(* A handler is a closure of the embedding program: called, it returns or  *)
(* it panics.  `bad` is the set of handlers that panic when called with    *)
(* the message at hand.  Nothing in the dispatch code catches a panic, so  *)
(* a panic unwinds out of the `for` loop of muxer_match! and out of        *)
(* handle_message.                                                         *)
(***************************************************************************)
Invocation(i, f, args) == [mux |-> i, f |-> f, args |-> args]

NoCalls == [calls |-> <<>>, panicked |-> FALSE]

\* Plausible slip (and the reading "first matching handler wins"): the
\* loop stops after the first category handler it has called.
muxer_match_FirstWins(ms, m, bad, arms) ==
    LET walk[i \in 0..Len(ms)] ==
            IF i = 0 THEN [calls |-> <<>>, panicked |-> FALSE, won |-> FALSE]
            ELSE LET prev == walk[i - 1]
                     any == ms[i].kind = "AnyMux"
                     args == IF any THEN << <<>> >> ELSE arms[i]
                 IN  IF prev.panicked \/ args = <<>> \/ (prev.won /\ ~any) THEN prev
                     ELSE [calls |-> Append(prev.calls, Invocation(i, ms[i].f, args[1])),
                           panicked |-> ms[i].f \in bad,
                           won |-> prev.won \/ ~any]
        end == walk[Len(ms)]
    IN  [calls |-> end.calls, panicked |-> end.panicked]

\* Plausible slip (and the reading "observers first"): one pass over the
\* registry for the AnyMux routes, then one for the others.
muxer_match_ObserversFirst(ms, m, bad, arms) ==
    LET order == SelectSeq([i \in 1..Len(ms) |-> i], LAMBDA i : ms[i].kind = "AnyMux")
                 \o SelectSeq([i \in 1..Len(ms) |-> i], LAMBDA i : ms[i].kind # "AnyMux")
        walk[k \in 0..Len(ms)] ==
            IF k = 0 THEN NoCalls
            ELSE LET prev == walk[k - 1]
                     i == order[k]
                     args == IF ms[i].kind = "AnyMux" THEN << <<>> >> ELSE arms[i]
                 IN  IF prev.panicked \/ args = <<>> THEN prev
                     ELSE [calls |-> Append(prev.calls, Invocation(i, ms[i].f, args[1])),
                           panicked |-> ms[i].f \in bad]
    IN  walk[Len(ms)]

\* Plausible slip: the AnyMux arm is left out of the match.
muxer_match_NoAny(ms, m, bad, arms) ==
    LET walk[i \in 0..Len(ms)] ==
            IF i = 0 THEN NoCalls
            ELSE LET prev == walk[i - 1]
                     args == IF ms[i].kind = "AnyMux" THEN <<>> ELSE arms[i]
                 IN  IF prev.panicked \/ args = <<>> THEN prev
                     ELSE [calls |-> Append(prev.calls, Invocation(i, ms[i].f, args[1])),
                           panicked |-> ms[i].f \in bad]
    IN  walk[Len(ms)]

\* Plausible slip: the loop goes through the registry from its end.
muxer_match_Reversed(ms, m, bad, arms) ==
    LET walk[k \in 0..Len(ms)] ==
            IF k = 0 THEN NoCalls
            ELSE LET prev == walk[k - 1]
                     i == Len(ms) + 1 - k
                     args == IF ms[i].kind = "AnyMux" THEN << <<>> >> ELSE arms[i]
                 IN  IF prev.panicked \/ args = <<>> THEN prev
                     ELSE [calls |-> Append(prev.calls, Invocation(i, ms[i].f, args[1])),
                           panicked |-> ms[i].f \in bad]
    IN  walk[Len(ms)]

\* muxer_match!: `for m in &self.muxers { match m { AnyMux(f) => f(self, msg),
\* <the arms of the caller>, _ => {} } }`.  arms[i] is what the caller's arms
\* give for route i: <<>> (no arm applies) or <<args>>, the arguments its
\* handler is called with after the bot and the message.  walk[i] is the
\* state of the loop after route i.
muxer_match(ms, m, bad, arms) ==
    LET walk[i \in 0..Len(ms)] ==
            IF i = 0 THEN NoCalls
            ELSE LET prev == walk[i - 1]
                     args == IF ms[i].kind = "AnyMux" THEN << <<>> >> ELSE arms[i]
                 IN  IF prev.panicked \/ args = <<>> THEN prev
                     ELSE [calls |-> Append(prev.calls, Invocation(i, ms[i].f, args[1])),
                           panicked |-> ms[i].f \in bad]
    IN  walk[Len(ms)]

\* The arm `&XMux(ref f) => f(self, msg, payload)` for each route of ms.
Arm(ms, kind, args) ==
    [i \in 1..Len(ms) |-> IF ms[i].kind = kind THEN <<args>> ELSE <<>>]

\* Two arms, as in handle_audio_msg and handle_voice_msg.
Arm2(ms, kind1, args1, kind2, args2) ==
    [i \in 1..Len(ms) |->
        IF ms[i].kind = kind1 THEN <<args1>>
        ELSE IF ms[i].kind = kind2 THEN <<args2>> ELSE <<>>]

handle_text_msg(ms, m, text, bad) ==
    muxer_match(ms, m, bad,
        [i \in 1..Len(ms) |->
            IF ms[i].kind = "TextMux"
            THEN IF is_match(Regex_new(ms[i].re), text) THEN << <<text>> >> ELSE <<>>
            ELSE IF ms[i].kind = "PatternMux"
            THEN IF is_match(Regex_new(ms[i].re), text)
                 THEN << <<text, captures_vec(Regex_new(ms[i].re), text)>> >>
                 ELSE <<>>
            ELSE <<>>])

handle_image_msg(ms, m, photos, bad) ==
    muxer_match(ms, m, bad, Arm(ms, "PhotoMux", <<photos>>))

handle_video_msg(ms, m, video, bad) ==
    muxer_match(ms, m, bad, Arm(ms, "VideoMux", <<video>>))

handle_document_msg(ms, m, document, bad) ==
    muxer_match(ms, m, bad, Arm(ms, "DocumentMux", <<document>>))

handle_sticker_msg(ms, m, sticker, bad) ==
    muxer_match(ms, m, bad, Arm(ms, "StickerMux", <<sticker>>))

GeneralSound(tag, v) == [tag |-> tag, v |-> v]

handle_audio_msg(ms, m, audio, bad) ==
    muxer_match(ms, m, bad,
        Arm2(ms, "AudioMux", <<audio>>,
                 "GeneralAudioMux", <<GeneralSound("Audio", audio)>>))

\* Plausible slip: the arm copied from handle_audio_msg keeps its tag.
handle_voice_msg_AudioTag(ms, m, voice, bad) ==
    muxer_match(ms, m, bad,
        Arm2(ms, "VoiceMux", <<voice>>,
                 "GeneralAudioMux", <<GeneralSound("Audio", voice)>>))

handle_voice_msg(ms, m, voice, bad) ==
    muxer_match(ms, m, bad,
        Arm2(ms, "VoiceMux", <<voice>>,
                 "GeneralAudioMux", <<GeneralSound("Voice", voice)>>))

handle_contact_msg(ms, m, cont, bad) ==
    muxer_match(ms, m, bad, Arm(ms, "ContactMux", <<cont>>))

handle_location_msg(ms, m, f1, f2, bad) ==
    muxer_match(ms, m, bad, Arm(ms, "LocationMux", <<f1, f2>>))

handle_new_chat_msg(ms, m, newp, bad) ==
    muxer_match(ms, m, bad, Arm(ms, "NewParticipantMux", <<newp>>))

handle_left_part_msg(ms, m, user, bad) ==
    muxer_match(ms, m, bad, Arm(ms, "LeftParticipantMux", <<user>>))

handle_new_title_msg(ms, m, title, bad) ==
    muxer_match(ms, m, bad, Arm(ms, "NewTitleMux", <<title>>))

handle_chat_photo_msg(ms, m, photos, bad) ==
    muxer_match(ms, m, bad, Arm(ms, "NewChatPhotoMux", <<photos>>))

handle_delete_photo_msg(ms, m, group, bad) ==
    muxer_match(ms, m, bad, Arm(ms, "DeleteChatPhotoMux", <<group>>))

handle_group_created_msg(ms, m, group, bad) ==
    muxer_match(ms, m, bad, Arm(ms, "GroupChatCreatedMux", <<group>>))

\* The GroupChat inside Chat::Group.
GroupOf(m) == <<"group">>

\* Plausible slip: every message is handed to the text routes.
handle_message_AllText(ms, m, bad) == handle_text_msg(ms, m, m.msg.v, bad)

\* Plausible slip: the chat is looked at for every message, and those of
\* a channel are dropped.
handle_message_ByChat(ms, m, bad) ==
    LET v == m.msg.v
        t == m.msg.t
    IN  CASE m.chat = "Channel" -> NoCalls
          [] m.chat # "Channel" /\ t = "Text" -> handle_text_msg(ms, m, v, bad)
          [] m.chat # "Channel" /\ t = "Audio" -> handle_audio_msg(ms, m, v, bad)
          [] m.chat # "Channel" /\ t = "Voice" -> handle_voice_msg(ms, m, v, bad)
          [] m.chat # "Channel" /\ t = "Photo" -> handle_image_msg(ms, m, v, bad)
          [] m.chat # "Channel" /\ t = "File" -> handle_document_msg(ms, m, v, bad)
          [] m.chat # "Channel" /\ t = "Sticker" -> handle_sticker_msg(ms, m, v, bad)
          [] m.chat # "Channel" /\ t = "Video" -> handle_video_msg(ms, m, v, bad)
          [] m.chat # "Channel" /\ t = "Contact" -> handle_contact_msg(ms, m, v, bad)
          [] m.chat # "Channel" /\ t = "Location" ->
               handle_location_msg(ms, m, "latitude", "longitude", bad)
          [] m.chat # "Channel" /\ t = "NewChatParticipant" ->
               handle_new_chat_msg(ms, m, v, bad)
          [] m.chat # "Channel" /\ t = "LeftChatParticipant" ->
               handle_left_part_msg(ms, m, v, bad)
          [] m.chat # "Channel" /\ t = "NewChatTitle" -> handle_new_title_msg(ms, m, v, bad)
          [] m.chat # "Channel" /\ t = "NewChatPhoto" -> handle_chat_photo_msg(ms, m, v, bad)
          [] m.chat # "Channel" /\ t = "DeleteChatPhoto" ->
               IF m.chat = "Group"
               THEN handle_delete_photo_msg(ms, m, GroupOf(m), bad) ELSE NoCalls
          [] m.chat # "Channel" /\ t = "GroupChatCreated" ->
               IF m.chat = "Group"
               THEN handle_group_created_msg(ms, m, GroupOf(m), bad) ELSE NoCalls

\* Plausible slip: the two chat events are handed on whatever the chat is.
handle_message_NoGroupGate(ms, m, bad) ==
    LET v == m.msg.v
        t == m.msg.t
    IN  CASE t = "Text" -> handle_text_msg(ms, m, v, bad)
          [] t = "Audio" -> handle_audio_msg(ms, m, v, bad)
          [] t = "Voice" -> handle_voice_msg(ms, m, v, bad)
          [] t = "Photo" -> handle_image_msg(ms, m, v, bad)
          [] t = "File" -> handle_document_msg(ms, m, v, bad)
          [] t = "Sticker" -> handle_sticker_msg(ms, m, v, bad)
          [] t = "Video" -> handle_video_msg(ms, m, v, bad)
          [] t = "Contact" -> handle_contact_msg(ms, m, v, bad)
          [] t = "Location" -> handle_location_msg(ms, m, "latitude", "longitude", bad)
          [] t = "NewChatParticipant" -> handle_new_chat_msg(ms, m, v, bad)
          [] t = "LeftChatParticipant" -> handle_left_part_msg(ms, m, v, bad)
          [] t = "NewChatTitle" -> handle_new_title_msg(ms, m, v, bad)
          [] t = "NewChatPhoto" -> handle_chat_photo_msg(ms, m, v, bad)
          [] t = "DeleteChatPhoto" -> handle_delete_photo_msg(ms, m, GroupOf(m), bad)
          [] t = "GroupChatCreated" -> handle_group_created_msg(ms, m, GroupOf(m), bad)

\* AwesomeBot::handle_message: the calls made and whether a handler's
\* panic ended it.
handle_message(ms, m, bad) ==
    LET v == m.msg.v
        t == m.msg.t
    IN  CASE t = "Text" -> handle_text_msg(ms, m, v, bad)
          [] t = "Audio" -> handle_audio_msg(ms, m, v, bad)
          [] t = "Voice" -> handle_voice_msg(ms, m, v, bad)
          [] t = "Photo" -> handle_image_msg(ms, m, v, bad)
          [] t = "File" -> handle_document_msg(ms, m, v, bad)
          [] t = "Sticker" -> handle_sticker_msg(ms, m, v, bad)
          [] t = "Video" -> handle_video_msg(ms, m, v, bad)
          [] t = "Contact" -> handle_contact_msg(ms, m, v, bad)
          [] t = "Location" -> handle_location_msg(ms, m, "latitude", "longitude", bad)
          [] t = "NewChatParticipant" -> handle_new_chat_msg(ms, m, v, bad)
          [] t = "LeftChatParticipant" -> handle_left_part_msg(ms, m, v, bad)
          [] t = "NewChatTitle" -> handle_new_title_msg(ms, m, v, bad)
          [] t = "NewChatPhoto" -> handle_chat_photo_msg(ms, m, v, bad)
          [] t = "DeleteChatPhoto" ->
               IF m.chat = "Group"
               THEN handle_delete_photo_msg(ms, m, GroupOf(m), bad) ELSE NoCalls
          [] t = "GroupChatCreated" ->
               IF m.chat = "Group"
               THEN handle_group_created_msg(ms, m, GroupOf(m), bad) ELSE NoCalls

\* ------------------------------------------------- the registry and a run

\* Before simple_start there is no pool.
NoPool ==
    /\ queue = <<>>
    /\ running = {}
    /\ alive = 0
    /\ joined = 0
    /\ received = 0
    /\ submitted = 0
    /\ started = 0

Init ==
    /\ username \in Usernames
    /\ muxers = <<>>
    /\ phase = "setup"
    /\ call = [fn |-> "new", arg |-> <<>>, res |-> "self"]
    /\ msg = NoMsg
    /\ trace = <<>>
    /\ result = "none"
    /\ NoPool
    /\ NoSend

\* simple_start is called: from here on the bot is borrowed by the pool
\* scope and no registration call can be made.
Start ==
    /\ phase = "setup"
    /\ phase' = "running"
    /\ call' = [fn |-> "simple_start", arg |-> <<>>, res |-> "listening"]
    /\ alive' = PoolSize                       \* Pool::new(4): four idle threads
    /\ queue' = <<>> /\ running' = {} /\ joined' = 0
    /\ received' = 0 /\ submitted' = 0 /\ started' = 0
    /\ UNCHANGED sendVars
    /\ UNCHANGED <<username, muxers, msg, trace, result>>

\* The choices of `bad` tried: no handler panics, or one of them does (the
\* first panic ends the dispatch, so a second one would never be seen).
PanicChoices(ms) == {{}} \cup {{f} : f \in 1..Len(ms)}

\* A job of the pool runs `self.handle_message(m)` for a received message.
HandleMessage ==
    /\ phase = "running"
    /\ result = "none"
    /\ \E m \in Messages, bad \in PanicChoices(muxers) :
          LET r == handle_message(muxers, m, bad)
          IN  /\ msg' = m
              /\ trace' = r.calls
              /\ result' = IF r.panicked THEN "panicked" ELSE "returned"
    /\ UNCHANGED sendVars
    /\ UNCHANGED <<username, muxers, phase, call>>
    /\ UNCHANGED poolVars

\* The job is over: the message goes out of scope.
Finish ==
    /\ phase = "running"
    /\ result # "none"
    /\ msg' = NoMsg /\ trace' = <<>> /\ result' = "none"
    /\ UNCHANGED sendVars
    /\ UNCHANGED <<username, muxers, phase, call>>
    /\ UNCHANGED poolVars

Next == Register \/ Start \/ HandleMessage \/ Finish

Spec == Init /\ [][Next]_vars

\* ------------------------------------------- text routes and text messages
(***************************************************************************)
(* The same registry and dispatch, with the text routes only: commands of  *)
(* one word and of two, a capture group that may stay out of the match,    *)
(* and the texts that tell the compiled patterns apart.                    *)
(***************************************************************************)

\* The one-word command, the command of simple.rs (echo (.+), here e (.+))
\* and a pattern whose group is optional.
TextPatterns ==
    {<<"t">>, <<"e", " ", "(", ".", "+", ")">>, <<"(", "t", ")", "?", "e">>}

\* /t, /t@b, /tx, x/t, /t@e, /e x, /e@b x, /e and /te.
TextTexts ==
    {<<"/", "t">>, <<"/", "t", "@", "b">>, <<"/", "t", "x">>, <<"x", "/", "t">>,
     <<"/", "t", "@", "e">>, <<"/", "e", " ", "x">>,
     <<"/", "e", "@", "b", " ", "x">>, <<"/", "e">>, <<"/", "t", "e">>}

TextMessages == {[msg |-> [t |-> "Text", v |-> x], chat |-> "Private"] : x \in TextTexts}

TextCommand ==
    \E pattern \in TextPatterns :
        PatternCall("command", "PatternMux", pattern, modify_command(pattern, username))

TextSimpleCommand ==
    \E pattern \in TextPatterns :
        PatternCall("simple_command", "TextMux", pattern, modify_command(pattern, username))

TextRegex ==
    \E pattern \in TextPatterns : PatternCall("regex", "PatternMux", pattern, pattern)

\* A job of the pool runs `self.handle_message(m)` for a text message.
HandleTextMessage ==
    /\ phase = "running"
    /\ result = "none"
    /\ \E m \in TextMessages, bad \in PanicChoices(muxers) :
          LET r == handle_message(muxers, m, bad)
          IN  /\ msg' = m
              /\ trace' = r.calls
              /\ result' = IF r.panicked THEN "panicked" ELSE "returned"
    /\ UNCHANGED sendVars
    /\ UNCHANGED <<username, muxers, phase, call>>
    /\ UNCHANGED poolVars

NextText ==
    \/ TextCommand \/ TextSimpleCommand \/ TextRegex
    \/ Start \/ HandleTextMessage \/ Finish

SpecText == Init /\ [][NextText]_vars

\* ------------------------------------------------------------ simple_start
(***************************************************************************)
(* simple_start with its pool (scoped_threadpool): Pool::new(4) starts     *)
(* four threads that take messages from one unbounded channel, a NewJob    *)
(* to run or a Join to park on; scoped.execute sends a NewJob and returns; *)
(* scoped.join_all sends one Join per thread and waits for every thread    *)
(* to answer.  A thread whose job panics ends and is not replaced.  The    *)
(* threads are interchangeable, so the model keeps the set of running      *)
(* jobs and the numbers of live and of parked threads.                     *)
(***************************************************************************)

\* Most updates the listener delivers in one run.
MaxUpdates == 6

\* The registry simple_start is called with.
PoolRegistries == {<<Muxer("AnyMux", <<>>, 1)>>}

\* The messages the updates carry.
PoolMessages == {[msg |-> [t |-> "Photo", v |-> Payload("Photo")], chat |-> "Private"]}

NewJob(id, m) == [type |-> "NewJob", id |-> id, m |-> m]

Join == [type |-> "Join", id |-> 0, m |-> NoMsg]

InitPool ==
    /\ username \in Usernames
    /\ muxers \in PoolRegistries
    /\ phase = "setup"
    /\ call = [fn |-> "new", arg |-> <<>>, res |-> "self"]
    /\ msg = NoMsg
    /\ trace = <<>>
    /\ result = "none"
    /\ NoPool
    /\ NoSend

\* Plausible slip: a dispatch is started whether or not a thread is free
\* (one thread per message, as in the thread::spawn the code once had).
FreeThreads_Spawn(n, busy, parked) == 1

\* Plausible slip: one dispatch at a time (a pool of one thread, or a lock
\* held around handle_message).
FreeThreads_OneAtATime(n, busy, parked) == IF busy = {} THEN n - parked ELSE 0

\* The pool threads waiting on the channel.
FreeThreads(n, busy, parked) == n - Cardinality(busy) - parked

\* Plausible slip: a bounded channel whose send gives up when it is full.
execute_Bounded(q, job) == IF Len(q) >= PoolSize THEN q ELSE Append(q, job)

\* Plausible slip: the dispatch is submitted twice.
execute_Twice(q, job) == Append(Append(q, job), job)

\* Scope::execute: job_sender.send(Message::NewJob(..)), on an unbounded
\* channel.
execute(q, job) == Append(q, job)

\* The listener delivers an update that carries a message: the callback
\* submits its dispatch and answers Continue.  With every pool thread
\* ended the channel is closed, the send fails and its unwrap panics.
ListenMessage ==
    /\ phase = "running"
    /\ received < MaxUpdates
    /\ received' = received + 1
    /\ \E m \in PoolMessages :
          IF alive > 0
          THEN /\ queue' = execute(queue, NewJob(received + 1, m))
               /\ submitted' = submitted + 1
               /\ UNCHANGED <<phase, call>>
          ELSE /\ phase' = "panicked"
               /\ call' = [call EXCEPT !.res = "panic"]
               /\ UNCHANGED <<queue, submitted>>
    /\ UNCHANGED sendVars
    /\ UNCHANGED <<username, muxers, msg, trace, result, running, alive, joined,
                   started>>

\* The listener delivers an update without a message: the callback answers
\* Continue.
ListenOther ==
    /\ phase = "running"
    /\ received < MaxUpdates
    /\ received' = received + 1
    /\ UNCHANGED sendVars
    /\ UNCHANGED <<username, muxers, phase, call, msg, trace, result,
                   queue, running, alive, joined, submitted, started>>

\* Plausible slip: the dispatches still waiting are dropped when the
\* listener ends.
TransportError_DropQueue ==
    /\ phase = "running"
    /\ IF alive > 0
       THEN /\ phase' = "joining"
            /\ queue' = [k \in 1..PoolSize |-> Join]
            /\ UNCHANGED call
       ELSE /\ phase' = "panicked"
            /\ call' = [call EXCEPT !.res = "panic"]
            /\ UNCHANGED queue
    /\ UNCHANGED sendVars
    /\ UNCHANGED <<username, muxers, msg, trace, result, running, alive, joined,
                   received, submitted, started>>

\* Plausible slip: join_all sends one Join too few.
TransportError_OneJoinShort ==
    /\ phase = "running"
    /\ IF alive > 0
       THEN /\ phase' = "joining"
            /\ queue' = queue \o [k \in 1..(PoolSize - 1) |-> Join]
            /\ UNCHANGED call
       ELSE /\ phase' = "panicked"
            /\ call' = [call EXCEPT !.res = "panic"]
            /\ UNCHANGED queue
    /\ UNCHANGED sendVars
    /\ UNCHANGED <<username, muxers, msg, trace, result, running, alive, joined,
                   received, submitted, started>>

\* The transport fails: listen returns the error and scoped.join_all()
\* sends one Join per thread of the pool.
TransportError ==
    /\ phase = "running"
    /\ IF alive > 0
       THEN /\ phase' = "joining"
            /\ queue' = queue \o [k \in 1..PoolSize |-> Join]
            /\ UNCHANGED call
       ELSE /\ phase' = "panicked"
            /\ call' = [call EXCEPT !.res = "panic"]
            /\ UNCHANGED queue
    /\ UNCHANGED sendVars
    /\ UNCHANGED <<username, muxers, msg, trace, result, running, alive, joined,
                   received, submitted, started>>

\* A free thread takes the next message of the channel: it starts the job
\* (self.handle_message(m)) or parks on the Join.
WorkerTake ==
    /\ phase \in {"running", "joining"}
    /\ FreeThreads(alive, running, joined) > 0
    /\ queue # <<>>
    /\ queue' = Tail(queue)
    /\ IF Head(queue).type = "NewJob"
       THEN /\ running' = running \cup {Head(queue)}
            /\ started' = started + 1
            /\ UNCHANGED joined
       ELSE /\ joined' = joined + 1
            /\ UNCHANGED <<running, started>>
    /\ UNCHANGED sendVars
    /\ UNCHANGED <<username, muxers, phase, call, msg, trace, result, alive,
                   received, submitted>>

\* Plausible slip: the bot remembers the message it dispatched last and
\* does not dispatch it again.
WorkerFinish_SkipRepeat ==
    /\ phase \in {"running", "joining"}
    /\ \E job \in running, bad \in PanicChoices(muxers) :
          LET r == IF result # "none" /\ job.m = msg
                   THEN NoCalls
                   ELSE handle_message(muxers, job.m, bad)
          IN  /\ running' = running \ {job}
              /\ alive' = IF r.panicked THEN alive - 1 ELSE alive
              /\ msg' = job.m
              /\ trace' = r.calls
              /\ result' = IF r.panicked THEN "panicked" ELSE "returned"
    /\ UNCHANGED sendVars
    /\ UNCHANGED <<username, muxers, phase, call, queue, joined, received,
                   submitted, started>>

\* Plausible slip: the dispatches come to their end in the order of their
\* updates (each waits for the one before it).
WorkerFinish_InOrder ==
    /\ phase \in {"running", "joining"}
    /\ \E job \in running, bad \in PanicChoices(muxers) :
          LET r == handle_message(muxers, job.m, bad)
          IN  /\ \A other \in running : job.id <= other.id
              /\ running' = running \ {job}
              /\ alive' = IF r.panicked THEN alive - 1 ELSE alive
              /\ msg' = job.m
              /\ trace' = r.calls
              /\ result' = IF r.panicked THEN "panicked" ELSE "returned"
    /\ UNCHANGED sendVars
    /\ UNCHANGED <<username, muxers, phase, call, queue, joined, received,
                   submitted, started>>

\* handle_message comes to its end on some thread: it returns and the
\* thread goes back to the channel, or a handler panicked and the thread
\* ends.  The variables msg, trace and result show this dispatch.
WorkerFinish ==
    /\ phase \in {"running", "joining"}
    /\ \E job \in running, bad \in PanicChoices(muxers) :
          LET r == handle_message(muxers, job.m, bad)
          IN  /\ running' = running \ {job}
              /\ alive' = IF r.panicked THEN alive - 1 ELSE alive
              /\ msg' = job.m
              /\ trace' = r.calls
              /\ result' = IF r.panicked THEN "panicked" ELSE "returned"
    /\ UNCHANGED sendVars
    /\ UNCHANGED <<username, muxers, phase, call, queue, joined, received,
                   submitted, started>>

\* Plausible slip: join_all is left out, simple_start returns the result
\* of listen at once.
JoinDone_NoWait ==
    /\ phase = "joining"
    /\ IF alive < PoolSize
       THEN phase' = "panicked" /\ call' = [call EXCEPT !.res = "panic"]
       ELSE phase' = "returned" /\ call' = [call EXCEPT !.res = "Err"]
    /\ joined' = 0
    /\ UNCHANGED sendVars
    /\ UNCHANGED <<username, muxers, msg, trace, result, queue, running, alive,
                   received, submitted, started>>

\* join_all has heard from every thread: the parked ones answered, the
\* ended ones gave an error.  It panics ("Thread pool worker panicked") if
\* a thread had ended; otherwise the threads are released and simple_start
\* returns the listener's result.
JoinDone ==
    /\ phase = "joining"
    /\ joined = alive
    /\ IF alive < PoolSize
       THEN phase' = "panicked" /\ call' = [call EXCEPT !.res = "panic"]
       ELSE phase' = "returned" /\ call' = [call EXCEPT !.res = "Err"]
    /\ joined' = 0
    /\ UNCHANGED sendVars
    /\ UNCHANGED <<username, muxers, msg, trace, result, queue, running, alive,
                   received, submitted, started>>

NextPool ==
    \/ Start \/ ListenMessage \/ ListenOther \/ TransportError
    \/ WorkerTake \/ WorkerFinish \/ JoinDone

SpecPool == InitPool /\ [][NextPool]_vars

\* The pool with its scheduling: a thread waiting on the channel takes the
\* message that is there, join_all goes on once every thread has answered,
\* and a handler that was started comes to its end.  Nothing is asked of
\* the listener: updates and the failure of the transport come as they
\* like.
SpecPoolLive ==
    /\ InitPool
    /\ [][NextPool]_vars
    /\ WF_vars(WorkerTake)
    /\ WF_vars(WorkerFinish)
    /\ WF_vars(JoinDone)

\* ------------------------------------------- the same message, once more
(***************************************************************************)
(* simple_start with registries of two routes and a few messages, each of  *)
(* which the listener may deliver again: the dispatches of one message run *)
(* on different threads, at the same time or one after the other.          *)
(***************************************************************************)

\* Most updates the listener delivers in one such run.
MaxRepeats == 3

\* An observer and the command t; the route of the deleted chat photo and
\* an observer after it; the route of every sound and the voice route.
RepeatRegistries ==
    {add_muxer(add_muxer(<<>>, "AnyMux", <<>>), "PatternMux", modify_command(<<"t">>, u)) :
        u \in Usernames}
    \cup {add_muxer(add_muxer(<<>>, "DeleteChatPhotoMux", <<>>), "AnyMux", <<>>),
          add_muxer(add_muxer(<<>>, "GeneralAudioMux", <<>>), "VoiceMux", <<>>)}

\* /t and x/t from a private chat, the deleted photo of a group chat and a
\* voice message.
RepeatMessages ==
    {[msg |-> [t |-> "Text", v |-> <<"/", "t">>], chat |-> "Private"],
     [msg |-> [t |-> "Text", v |-> <<"x", "/", "t">>], chat |-> "Private"],
     [msg |-> [t |-> "DeleteChatPhoto", v |-> Payload("DeleteChatPhoto")], chat |-> "Group"],
     [msg |-> [t |-> "Voice", v |-> Payload("Voice")], chat |-> "Group"]}

InitRepeat ==
    /\ username \in Usernames
    /\ muxers \in RepeatRegistries
    /\ phase = "setup"
    /\ call = [fn |-> "new", arg |-> <<>>, res |-> "self"]
    /\ msg = NoMsg
    /\ trace = <<>>
    /\ result = "none"
    /\ NoPool
    /\ NoSend

\* The listener delivers an update that carries one of these messages:
\* the callback submits its dispatch and answers Continue, as in
\* ListenMessage.
ListenRepeat ==
    /\ phase = "running"
    /\ received < MaxRepeats
    /\ received' = received + 1
    /\ \E m \in RepeatMessages :
          IF alive > 0
          THEN /\ queue' = execute(queue, NewJob(received + 1, m))
               /\ submitted' = submitted + 1
               /\ UNCHANGED <<phase, call>>
          ELSE /\ phase' = "panicked"
               /\ call' = [call EXCEPT !.res = "panic"]
               /\ UNCHANGED <<queue, submitted>>
    /\ UNCHANGED sendVars
    /\ UNCHANGED <<username, muxers, msg, trace, result, running, alive, joined,
                   started>>

NextRepeat == Start \/ ListenRepeat \/ WorkerTake \/ WorkerFinish

SpecRepeat == InitRepeat /\ [][NextRepeat]_vars

\* ------------------------------------------------- modify_command, alone

Letters == {"t", "e"}

\* The characters of the shorthands tried.
CommandAlphabet == Letters \cup {"^", "/", "$", " "}

StringsUpTo(alphabet, n) == UNION {[1..k -> alphabet] : k \in 0..n}

\* The shorthand and the username of test_complex_command.
EchoCommand == <<"e", "c", "h", "o", " ", "(", ".", "+", ")">>

Rock == <<"r", "o", "c", "k">>

\* The shorthands compiled: every string over the alphabet up to MaxLen
\* characters, and the one of test_complex_command.
Shorthands == StringsUpTo(CommandAlphabet, MaxLen) \cup {EchoCommand}

CompileUsernames == {<<>>, <<"b">>, <<"b", "o">>, Rock}

InitCompile ==
    /\ username \in CompileUsernames
    /\ muxers = <<>>
    /\ phase = "setup"
    /\ call = [fn |-> "new", arg |-> <<>>, res |-> <<>>]
    /\ msg = NoMsg
    /\ trace = <<>>
    /\ result = "none"
    /\ NoPool
    /\ NoSend

\* Self::modify_command(pattern, &self.username), as command and
\* simple_command call it.
Compile ==
    /\ call.fn = "new"
    /\ \E orig \in Shorthands :
          call' = [fn |-> "modify_command", arg |-> orig,
                   res |-> modify_command(orig, username)]
    /\ UNCHANGED sendVars
    /\ UNCHANGED <<username, muxers, phase, msg, trace, result>>
    /\ UNCHANGED poolVars

NextCompile == Compile

SpecCompile == InitCompile /\ [][NextCompile]_vars

\* ------------------------------------------------------ the send builders
(***************************************************************************)
(* src/src/send.rs: AwesomeBot::send and answer make a SendBuilder for a   *)
(* chat; text, photo, ... turn it into the builder of one kind of message, *)
(* with no reply markup; keyboard, hide, force and markup set the reply    *)
(* markup; end() makes the request to the Api and gives its result back.   *)
(* One builder is followed from its making; the Api answers Ok or Err as   *)
(* it likes.                                                               *)
(***************************************************************************)

\* Most calls of end() in one run.
MaxSends == 2

ChatIds == {1, 2}

\* The messages answered: one of each chat.
AnswerMessages ==
    {[msg |-> [t |-> "Text", v |-> <<"/", "t">>], chat |-> [kind |-> "Private", id |-> id]] :
        id \in ChatIds}

\* The ReplyKeyboardMarkup values given to keyboard, each named by its
\* one_time_keyboard flag.
Keyboards == BOOLEAN

\* telegram_bot::ReplyMarkup; ReplyMarkup::from(r) is the Keyboard variant.
ReplyMarkup(tag, v) == [tag |-> tag, v |-> v]

ReplyMarkups ==
    {ReplyMarkup("Keyboard", r) : r \in Keyboards}
    \cup {ReplyMarkup("KeyboardHide", h) : h \in BOOLEAN}
    \cup {ReplyMarkup("ForceReply", f) : f \in BOOLEAN}

\* The builders addkeyboardfuncs! is applied to.
MarkupTypes ==
    {"SendText", "SendPhoto", "SendAudio", "SendVoice", "SendDocument",
     "SendSticker", "SendVideo", "SendLocation"}

\* The method of the Api each builder's end() calls.
MethodOf(type) ==
    CASE type = "SendText" -> "send_message"
      [] type = "SendPhoto" -> "send_photo"
      [] type = "SendAudio" -> "send_audio"
      [] type = "SendVoice" -> "send_voice"
      [] type = "SendDocument" -> "send_document"
      [] type = "SendSticker" -> "send_sticker"
      [] type = "SendVideo" -> "send_video"
      [] type = "SendLocation" -> "send_location"
      [] type = "SendForward" -> "forward_message"
      [] type = "SendAction" -> "send_chat_action"

\* SendBuilder::new(id, bot)
SendBuilder_new(id) == [type |-> "SendBuilder", chat_id |-> id, reply_markup |-> None]

\* What the calls of the send surface leave alone.
SendFrame ==
    /\ UNCHANGED <<username, muxers, phase, msg, trace, result>>
    /\ UNCHANGED poolVars

\* AwesomeBot::send(id)
send ==
    /\ builder = NoBuilder
    /\ \E id \in ChatIds :
          /\ builder' = SendBuilder_new(id)
          /\ call' = [fn |-> "send", arg |-> id, res |-> "SendBuilder"]
    /\ UNCHANGED outbox
    /\ SendFrame

\* AwesomeBot::answer(m): self.send(m.chat.id())
answer ==
    /\ builder = NoBuilder
    /\ \E m \in AnswerMessages :
          /\ builder' = SendBuilder_new(m.chat.id)
          /\ call' = [fn |-> "answer", arg |-> m, res |-> "SendBuilder"]
    /\ UNCHANGED outbox
    /\ SendFrame

\* SendBuilder::text, photo, ...: the builder of one kind of message, its
\* optional fields None.
StartSend(fn, type) ==
    /\ builder.type = "SendBuilder"
    /\ builder' = [type |-> type, chat_id |-> builder.chat_id, reply_markup |-> None]
    /\ call' = [fn |-> fn, arg |-> <<>>, res |-> type]
    /\ UNCHANGED outbox
    /\ SendFrame

SendBuilder_text == StartSend("text", "SendText")
SendBuilder_photo == StartSend("photo", "SendPhoto")
SendBuilder_audio == StartSend("audio", "SendAudio")
SendBuilder_voice == StartSend("voice", "SendVoice")
SendBuilder_document == StartSend("document", "SendDocument")
SendBuilder_sticker == StartSend("sticker", "SendSticker")
SendBuilder_video == StartSend("video", "SendVideo")
SendBuilder_forward == StartSend("forward", "SendForward")
SendBuilder_action == StartSend("action", "SendAction")
SendBuilder_location == StartSend("location", "SendLocation")

\* Plausible slip: a reply markup, once set, is kept.
SetMarkup_FirstWins(b, v) ==
    IF b.reply_markup = None THEN [b EXCEPT !.reply_markup = Some(v)] ELSE b

\* self.$markname = Some(v)
SetMarkup(b, v) == [b EXCEPT !.reply_markup = Some(v)]

\* A call that sets the reply markup, on a builder that has the method.
MarkupCall(fn, arg, v) ==
    /\ builder.type \in MarkupTypes
    /\ builder' = SetMarkup(builder, v)
    /\ call' = [fn |-> fn, arg |-> arg, res |-> "self"]
    /\ UNCHANGED outbox
    /\ SendFrame

keyboard == \E r \in Keyboards : MarkupCall("keyboard", r, ReplyMarkup("Keyboard", r))

hide == \E h \in BOOLEAN : MarkupCall("hide", h, ReplyMarkup("KeyboardHide", h))

force == \E f \in BOOLEAN : MarkupCall("force", f, ReplyMarkup("ForceReply", f))

markup == \E v \in ReplyMarkups : MarkupCall("markup", v, v)

\* The request end() makes, with what the Api answers to it.
Request(b, answered) ==
    [method |-> MethodOf(b.type), chat_id |-> b.chat_id,
     reply_markup |-> b.reply_markup, result |-> answered]

\* Plausible slip: a failed send is tried once more.
SendOnce_Retry(box, b, answered) ==
    IF answered = "Err"
    THEN Append(Append(box, Request(b, answered)), Request(b, answered))
    ELSE Append(box, Request(b, answered))

\* self.send.bot.send_message(self.send.chat_id, ..., self.reply_markup.clone())
SendOnce(box, b, answered) == Append(box, Request(b, answered))

\* Ender::end(&mut self): one request to the Api, whose result is the
\* result of end.
end ==
    /\ builder.type \notin {"None", "SendBuilder"}
    /\ Len(outbox) < MaxSends
    /\ \E answered \in {"Ok", "Err"} :
          /\ outbox' = SendOnce(outbox, builder, answered)
          /\ call' = [fn |-> "end", arg |-> <<>>, res |-> answered]
    /\ UNCHANGED builder
    /\ SendFrame

InitSend ==
    /\ username \in Usernames
    /\ muxers \in PoolRegistries
    /\ phase = "setup"
    /\ call = [fn |-> "new", arg |-> <<>>, res |-> "self"]
    /\ msg = NoMsg
    /\ trace = <<>>
    /\ result = "none"
    /\ NoPool
    /\ NoSend

NextSend ==
    \/ send \/ answer
    \/ SendBuilder_text \/ SendBuilder_photo \/ SendBuilder_audio \/ SendBuilder_voice \/ SendBuilder_document \/ SendBuilder_sticker \/ SendBuilder_video
    \/ SendBuilder_forward \/ SendBuilder_action \/ SendBuilder_location
    \/ keyboard \/ hide \/ force \/ markup
    \/ end

SpecSend == InitSend /\ [][NextSend]_vars

\* ======================================================================
\* The claims
\* ======================================================================

\* The number of times route i was invoked in the last dispatch.
Count(i) == Cardinality({k \in 1..Len(trace) : trace[k].mux = i})

Invoked(i) == Count(i) >= 1

IsTextRoute(mux) == mux.kind \in {"TextMux", "PatternMux"}

Dispatched == result # "none"

\* The walk over the registry got to route i: it went through the whole
\* registry, or it ended at the route whose handler panicked.
Reached(i) == result = "returned" \/ (trace # <<>> /\ i <= trace[Len(trace)].mux)

\* C1. Text fan-out: when a text message is dispatched, every TextMux and
\* PatternMux route whose regex matches the text is invoked exactly once
\* as the walk over the registry comes to it, and no route whose regex does
\* not match is invoked; two matching routes both run.
C1_TextFanOut ==
    (Dispatched /\ msg.msg.t = "Text") =>
        \A i \in 1..Len(muxers) :
            IsTextRoute(muxers[i]) =>
                LET matches == is_match(Regex_new(muxers[i].re), msg.msg.v)
                IN  /\ Count(i) <= 1
                    /\ Invoked(i) => matches
                    /\ (matches /\ Reached(i)) => Count(i) = 1

\* Two text routes match the text and both were invoked.
C1_Witness ==
    /\ result = "returned" /\ msg.msg.t = "Text"
    /\ Len(muxers) = 2
    /\ muxers[1].kind = "TextMux" /\ muxers[2].kind = "PatternMux"
    /\ Count(1) = 1 /\ Count(2) = 1

IsObserverCall(c) == muxers[c.mux].kind = "AnyMux"

C3_ObserverOnEveryMessage ==
    result = "returned" =>
        \A i \in 1..Len(muxers) : muxers[i].kind = "AnyMux" => Count(i) = 1

\* The message type each route variant is registered for (the any-audio
\* route: both audio and voice).
TypesOf(kind) ==
    CASE kind = "PhotoMux" -> {"Photo"}
      [] kind = "VideoMux" -> {"Video"}
      [] kind = "DocumentMux" -> {"File"}
      [] kind = "StickerMux" -> {"Sticker"}
      [] kind = "AudioMux" -> {"Audio"}
      [] kind = "VoiceMux" -> {"Voice"}
      [] kind = "GeneralAudioMux" -> {"Audio", "Voice"}
      [] kind = "ContactMux" -> {"Contact"}
      [] kind = "LocationMux" -> {"Location"}
      [] kind = "NewParticipantMux" -> {"NewChatParticipant"}
      [] kind = "LeftParticipantMux" -> {"LeftChatParticipant"}
      [] kind = "NewTitleMux" -> {"NewChatTitle"}
      [] kind = "NewChatPhotoMux" -> {"NewChatPhoto"}
      [] kind = "DeleteChatPhotoMux" -> {"DeleteChatPhoto"}
      [] kind = "GroupChatCreatedMux" -> {"GroupChatCreated"}
      [] OTHER -> {}

\* Route mux applies to message m: an observer, a text route whose regex
\* matches, or a route of the message's category.
Applies(mux, m) ==
    \/ mux.kind = "AnyMux"
    \/ /\ IsTextRoute(mux)
       /\ m.msg.t = "Text"
       /\ is_match(Regex_new(mux.re), m.msg.v)
    \/ m.msg.t \in TypesOf(mux.kind)

\* C4 as stated. Failure confined to one handler: when a handler panics
\* during a dispatch, every later route that applies to the same message
\* is still invoked.
C4_FailureConfined ==
    result = "panicked" =>
        \A j \in 1..Len(muxers) :
            (j > trace[Len(trace)].mux /\ Applies(muxers[j], msg)) => Invoked(j)

\* The jobs waiting in the channel, in order.
QueuedJobs == SelectSeq(queue, LAMBDA x : x.type = "NewJob")

AllBusy == Cardinality(running) = PoolSize

\* C5 as stated. Failure does not break the pool: after a handler has
\* failed, the pool keeps its 4 usable workers, simple_start does not
\* crash, and when simple_start has ended no submitted dispatch is left
\* undone.
C5_FailureDoesNotBreakPool ==
    /\ phase \in {"running", "joining", "returned"} => alive = PoolSize
    /\ phase # "panicked"
    /\ phase \in {"returned", "panicked"} => (QueuedJobs = <<>> /\ running = {})

\* C6 as stated. Backpressure: while 4 dispatches are running (all workers
\* busy) the submission of a further message does not get through: it
\* blocks until a worker is free, so the messages submitted and not yet
\* started do not grow in number.
C6_Backpressure ==
    [][AllBusy => Len(QueuedJobs') <= Len(QueuedJobs)]_vars

\* C6 as amended. Submission never blocks: scoped.execute puts the
\* dispatch on the pool's job channel and returns, also while 4 dispatches
\* are running; every message submitted and not yet started waits in the
\* channel, in arrival order.
C6_SubmissionQueued ==
    /\ Len(QueuedJobs) = submitted - started
    /\ \A a, b \in 1..Len(QueuedJobs) : a < b => QueuedJobs[a].id < QueuedJobs[b].id

\* Four dispatches run, two more messages have been accepted meanwhile and
\* the listener is still going.
C6_Witness ==
    /\ phase = "running"
    /\ AllBusy
    /\ Len(QueuedJobs) = 2

\* C7. Bounded parallelism: at most 4 calls of handle_message execute at
\* the same time, however many messages have been received.
C7_BoundedParallelism == Cardinality(running) <= PoolSize

\* Four dispatches run while a fifth message waits.
C7_Witness == AllBusy /\ Len(QueuedJobs) >= 1 /\ submitted > PoolSize

PatternFns == {"command", "simple_command", "regex", "simple_regex"}

\* The pattern a registration call hands to Regex::new.
CompiledPattern(c) ==
    IF c.fn \in {"command", "simple_command"}
    THEN modify_command(c.arg, username) ELSE c.arg

InvalidPatternCall(c) == c.fn \in PatternFns /\ ~Regex_new(CompiledPattern(c)).ok

\* C8. Invalid pattern is a silent no-op: command, simple_command, regex or
\* simple_regex with a pattern that does not compile leaves the registry
\* exactly as it was and hands the bot back to the caller, as a successful
\* call does.
C8_InvalidPatternNoOp ==
    [][InvalidPatternCall(call') => (muxers' = muxers /\ call'.res = "self")]_vars

\* A call with a pattern that does not compile, on a registry with a route.
C8_Witness == InvalidPatternCall(call) /\ Len(muxers) >= 1

\* The variant each registration call creates.
KindOf(fn) ==
    CASE fn \in {"command", "regex"} -> "PatternMux"
      [] fn \in {"simple_command", "simple_regex"} -> "TextMux"
      [] fn = "any_fn" -> "AnyMux"
      [] fn = "photo_fn" -> "PhotoMux"
      [] fn = "video_fn" -> "VideoMux"
      [] fn = "document_fn" -> "DocumentMux"
      [] fn = "sticker_fn" -> "StickerMux"
      [] fn = "audio_fn" -> "AudioMux"
      [] fn = "voice_fn" -> "VoiceMux"
      [] fn = "all_music_fn" -> "GeneralAudioMux"
      [] fn = "contact_fn" -> "ContactMux"
      [] fn = "location_fn" -> "LocationMux"
      [] fn = "new_participant_fn" -> "NewParticipantMux"
      [] fn = "left_participant_fn" -> "LeftParticipantMux"
      [] fn = "new_title_fn" -> "NewTitleMux"
      [] fn = "new_chat_photo_fn" -> "NewChatPhotoMux"
      [] fn = "delete_chat_photo_fn" -> "DeleteChatPhotoMux"
      [] fn = "group_chat_created_fn" -> "GroupChatCreatedMux"
      [] OTHER -> "none"

\* C9. Append-only ordered registry: every successful registration call
\* appends exactly one route, of the call's variant, at the end of the
\* registry and leaves the earlier routes as they were; no step removes,
\* replaces or reorders a route.
C9_AppendOnly ==
    [][/\ Len(muxers') >= Len(muxers)
       /\ SubSeq(muxers', 1, Len(muxers)) = muxers
       /\ (phase = "setup" /\ phase' = "setup" /\ ~InvalidPatternCall(call')) =>
             /\ Len(muxers') = Len(muxers) + 1
             /\ muxers'[Len(muxers')].kind = KindOf(call'.fn)
       /\ ~(phase = "setup" /\ phase' = "setup") => muxers' = muxers]_vars

\* Two routes of different variants, an observer after a pattern route.
C9_Witness ==
    /\ Len(muxers) = 2
    /\ muxers[1].kind = "PatternMux" /\ muxers[2].kind = "AnyMux"
    /\ muxers[1].f = 1 /\ muxers[2].f = 2

\* The six shorthands of the one-word command w.
SixForms(w) ==
    {w, w \o <<"$">>, <<"/">> \o w, <<"/">> \o w \o <<"$">>,
     <<"^", "/">> \o w, <<"^", "/">> \o w \o <<"$">>}

Words == StringsUpTo(Letters, MaxLen) \ {<<>>}

\* C10. Normal form of a command: for a one-word command w and a username
\* u, the shorthands w, w$, /w, /w$, ^/w and ^/w$ all compile to
\* ^/w(?:@u)?$.
C10_NormalForm ==
    call.fn = "modify_command" =>
        \A w \in Words :
            call.arg \in SixForms(w) =>
                call.res = <<"^", "/">> \o w \o <<"(", "?", ":", "@">>
                           \o username \o <<")", "?", "$">>

\* The shorthand /t$ has been compiled for the username bo.
C10_Witness ==
    /\ call.fn = "modify_command"
    /\ call.arg = <<"/", "t", "$">>
    /\ username = <<"b", "o">>
    /\ call.res = <<"^", "/", "t", "(", "?", ":", "@", "b", "o", ")", "?", "$">>

\* The words of a shorthand after the first, each with the space put
\* before it.
RestWords(ws) == Flat([k \in 1..(Len(ws) - 1) |-> <<" ">> \o ws[k + 1]])

\* C11. Multi-token command: for a shorthand of several words the group
\* (?:@username)? is put into the first word only, after the command word
\* and before the `$` it ended with if any; the other words follow
\* unchanged, in order, each after a single space; around this only the
\* anchors are added. (echo (.+), rock) gives ^/echo(?:@rock)? (.+)$.
C11_MultiToken ==
    call.fn = "modify_command" =>
        LET ws == split_whitespace(call.arg)
            dollar == ends_with(ws[1], <<"$">>)
            word == IF dollar THEN SubSeq(ws[1], 1, Len(ws[1]) - 1) ELSE ws[1]
            body == word \o <<"(", "?", ":", "@">> \o username \o <<")", "?">>
                    \o (IF dollar THEN <<"$">> ELSE <<>>) \o RestWords(ws)
        IN  /\ Len(ws) >= 2 =>
                \E pre \in {<<>>, <<"/">>, <<"^">>, <<"^", "/">>}, suf \in {<<>>, <<"$">>} :
                    call.res = pre \o body \o suf
            /\ (call.arg = EchoCommand /\ username = Rock) =>
                call.res = <<"^", "/", "e", "c", "h", "o", "(", "?", ":", "@",
                             "r", "o", "c", "k", ")", "?", " ", "(", ".", "+", ")", "$">>

\* The shorthand of test_complex_command has been compiled for rock.
C11_Witness ==
    /\ call.fn = "modify_command"
    /\ call.arg = EchoCommand
    /\ username = Rock
    /\ Len(split_whitespace(call.arg)) = 2

\* C12 as stated. Anchored at both ends: for every shorthand and every
\* username the pattern modify_command returns begins with ^/ and ends
\* with $.
C12_AnchoredBothEnds ==
    call.fn = "modify_command" =>
        /\ starts_with(call.res, <<"^", "/">>)
        /\ ends_with(call.res, <<"$">>)

\* The words a command is made of here: letters only.
OneWordCommands == {<<"t">>}

\* C13. Command acceptance: a route registered with command(c) or
\* simple_command(c) for a one-word command c fires for the texts /c and
\* /c@u, u the username of the bot, and for no other text: not for /cx,
\* x/c or /c@v with another username v.
C13_CommandAcceptance ==
    (Dispatched /\ msg.msg.t = "Text") =>
        \A i \in 1..Len(muxers), c \in OneWordCommands :
            (IsTextRoute(muxers[i]) /\ muxers[i].re = modify_command(c, username)) =>
                LET accepted == {<<"/">> \o c, <<"/">> \o c \o <<"@">> \o username}
                IN  /\ Invoked(i) => msg.msg.v \in accepted
                    /\ (msg.msg.v \in accepted /\ Reached(i)) => Count(i) = 1

\* command(t) and simple_command(t) have both fired for /t@b.
C13_Witness ==
    /\ result = "returned"
    /\ msg.msg.v = <<"/", "t", "@", "b">>
    /\ Len(muxers) = 2
    /\ muxers[1].kind = "PatternMux" /\ muxers[2].kind = "TextMux"
    /\ \A i \in 1..2 : muxers[i].re = modify_command(<<"t">>, username) /\ Count(i) = 1

\* The capture groups written in the pattern p: the `(` that do not open
\* a `(?` group.
NumGroups(p) ==
    Cardinality({k \in 1..Len(p) : p[k] = "(" /\ ~(k < Len(p) /\ p[k + 1] = "?")})

\* The invocations of route i in the last dispatch.
CallsOf(i) == SelectSeq(trace, LAMBDA c : c.mux = i)

\* C14. Compilation adds no capture group: the handler of a route made by
\* command(p) gets a capture list of 1 + (the groups written in p)
\* entries, entry 0 is the whole text (/t or /t@b for the shorthand t),
\* and the groups of p are at their own indices, with what p alone
\* captures in the text (the group of e (.+) is at index 1).
C14_NoAddedGroup ==
    (Dispatched /\ msg.msg.t = "Text") =>
        \A i \in 1..Len(muxers), p \in TextPatterns :
            (muxers[i].kind = "PatternMux" /\ muxers[i].re = modify_command(p, username)) =>
                \A k \in 1..Len(CallsOf(i)) :
                    LET caps == CallsOf(i)[k].args[2]
                        alone == Regex_new(p)
                    IN  /\ Len(caps) = 1 + NumGroups(p)
                        /\ caps[1] = msg.msg.v
                        /\ is_match(alone, msg.msg.v) =>
                              \A g \in 1..NumGroups(p) :
                                  caps[g + 1] = captures_vec(alone, msg.msg.v)[g + 1]

\* command(e (.+)) has fired for /e@b x with the list </e@b x, x>.
C14_Witness ==
    /\ Len(trace) = 1
    /\ muxers[trace[1].mux].kind = "PatternMux"
    /\ muxers[trace[1].mux].re = modify_command(<<"e", " ", "(", ".", "+", ")">>, username)
    /\ trace[1].args = << <<"/", "e", "@", "b", " ", "x">>,
                          << <<"/", "e", "@", "b", " ", "x">>, <<"x">> >> >>

\* s is a run of neighbouring characters of text (the empty string is).
IsSubstring(s, text) ==
    \E a \in 1..(Len(text) + 1), b \in 0..Len(text) :
        b >= a - 1 /\ s = SubSeq(text, a, b)

OptionalGroup == <<"(", "t", ")", "?", "e">>

\* C15. Capture list passed to a pattern handler: a PatternMux route whose
\* regex matches the text is invoked once, with the text as it came and a
\* list of one string per group of its pattern, entry 0 the match; a group
\* that took no part in the match is the empty string, so the list is as
\* long for every text ((t)?e gives <e, > for /e and <te, t> for /te).
C15_CaptureList ==
    (Dispatched /\ msg.msg.t = "Text") =>
        \A i \in 1..Len(muxers) :
            muxers[i].kind = "PatternMux" =>
                /\ Count(i) <= 1
                /\ (is_match(Regex_new(muxers[i].re), msg.msg.v) /\ Reached(i)) => Count(i) = 1
                /\ \A k \in 1..Len(CallsOf(i)) :
                      LET args == CallsOf(i)[k].args
                      IN  /\ Len(args) = 2
                          /\ args[1] = msg.msg.v
                          /\ Len(args[2]) = 1 + NumGroups(muxers[i].re)
                          /\ \A g \in 1..Len(args[2]) : IsSubstring(args[2][g], msg.msg.v)
                          /\ muxers[i].re = OptionalGroup =>
                                args[2] \in {<< <<"e">>, <<>> >>, << <<"t", "e">>, <<"t">> >>}

\* regex((t)?e) has fired for /e: its group took no part in the match.
C15_Witness ==
    /\ Len(trace) = 1
    /\ muxers[trace[1].mux].kind = "PatternMux"
    /\ muxers[trace[1].mux].re = OptionalGroup
    /\ trace[1].args = << <<"/", "e">>, << <<"e">>, <<>> >> >>

IsCategoryRoute(mux) == mux.kind # "AnyMux"

\* C16 as stated. Category exclusivity: the dispatch of a message that is
\* not a text invokes every route of the message's own category exactly
\* once and no route of another category; a text message invokes no media
\* or membership route.
C16_CategoryExclusive ==
    Dispatched =>
        \A i \in 1..Len(muxers) :
            IsCategoryRoute(muxers[i]) =>
                /\ Count(i) <= 1
                /\ (Invoked(i) /\ msg.msg.t # "Text") => msg.msg.t \in TypesOf(muxers[i].kind)
                /\ (Invoked(i) /\ msg.msg.t = "Text") => IsTextRoute(muxers[i])
                /\ (msg.msg.t \in TypesOf(muxers[i].kind) /\ Reached(i)) => Count(i) = 1

\* DeleteChatPhoto and GroupChatCreated are handed on only with the
\* GroupChat of a group chat.
HandedOn(m) ==
    m.msg.t \in {"DeleteChatPhoto", "GroupChatCreated"} => m.chat = "Group"

\* C16 as amended. The same, but a delete-chat-photo or group-created
\* message invokes the routes of its category only when its chat is a
\* group: from a private chat or a channel it invokes none of them.
C16_CategoryExclusiveInGroups ==
    Dispatched =>
        \A i \in 1..Len(muxers) :
            IsCategoryRoute(muxers[i]) =>
                /\ Count(i) <= 1
                /\ (Invoked(i) /\ msg.msg.t # "Text") => msg.msg.t \in TypesOf(muxers[i].kind)
                /\ (Invoked(i) /\ msg.msg.t = "Text") => IsTextRoute(muxers[i])
                /\ (msg.msg.t \in TypesOf(muxers[i].kind) /\ Reached(i) /\ HandedOn(msg))
                      => Count(i) = 1
                /\ ~HandedOn(msg) => Count(i) = 0

\* A new-title message whose title is /t: the title route has run, the
\* command route for /t has not.
C16_Witness ==
    /\ result = "returned" /\ msg.msg.t = "NewChatTitle" /\ msg.msg.v = <<"/", "t">>
    /\ Len(muxers) = 2
    /\ IsTextRoute(muxers[1]) /\ is_match(Regex_new(muxers[1].re), msg.msg.v)
    /\ muxers[2].kind = "NewTitleMux"
    /\ Count(1) = 0 /\ Count(2) = 1

\* C17. Any-audio route: a route of all_music_fn is invoked for every audio
\* message with the value tagged Audio and for every voice message with
\* the value tagged Voice, as the audio_fn and voice_fn routes are for
\* theirs, and for no other message; an audio message invokes no voice_fn
\* route and a voice message no audio_fn route.
C17_AnyAudio ==
    Dispatched =>
        \A i \in 1..Len(muxers) :
            LET kind == muxers[i].kind
                sound == msg.msg.t \in {"Audio", "Voice"}
            IN  /\ kind = "GeneralAudioMux" =>
                    /\ (sound /\ Reached(i)) => Count(i) = 1
                    /\ ~sound => Count(i) = 0
                    /\ \A k \in 1..Len(CallsOf(i)) :
                          CallsOf(i)[k].args = <<GeneralSound(msg.msg.t, msg.msg.v)>>
                /\ kind \in {"AudioMux", "VoiceMux"} =>
                    LET own == IF kind = "AudioMux" THEN "Audio" ELSE "Voice"
                    IN  /\ (msg.msg.t = own /\ Reached(i)) => Count(i) = 1
                        /\ msg.msg.t # own => Count(i) = 0
                        /\ \A k \in 1..Len(CallsOf(i)) : CallsOf(i)[k].args = <<msg.msg.v>>

\* A voice message has run a voice_fn route and an all_music_fn route, the
\* second with the value tagged Voice.
C17_Witness ==
    /\ result = "returned" /\ msg.msg.t = "Voice"
    /\ Len(muxers) = 2 /\ Len(trace) = 2
    /\ muxers[1].kind = "VoiceMux" /\ muxers[2].kind = "GeneralAudioMux"
    /\ trace[2].args = <<GeneralSound("Voice", Payload("Voice"))>>

\* C18. Registration order within one event: the category handlers
\* invoked for one event are invoked in the order their routes were
\* registered, one after another: a handler is started only when the one
\* invoked before it has returned (had that one not returned, the calls
\* would have ended with it).
C18_RegistrationOrderInEvent ==
    Dispatched =>
        /\ \A a, b \in 1..Len(trace) :
              (a < b /\ IsCategoryRoute(muxers[trace[a].mux])
                     /\ IsCategoryRoute(muxers[trace[b].mux]))
                  => trace[a].mux < trace[b].mux
        /\ \A k \in 1..(Len(trace) - 1) :
              handle_message(muxers, msg, {trace[k].f}).calls = SubSeq(trace, 1, k)

\* Two photo routes have run for one photo message, the first registered
\* first.
C18_Witness ==
    /\ result = "returned" /\ msg.msg.t = "Photo"
    /\ Len(muxers) = 2
    /\ muxers[1].kind = "PhotoMux" /\ muxers[2].kind = "PhotoMux"
    /\ Len(trace) = 2 /\ trace[1].mux = 1 /\ trace[2].mux = 2

\* C19. Drain on shutdown: simple_start returns only after the listener has
\* stopped (no update is taken and no dispatch submitted any more) and
\* every dispatch submitted to the pool has finished: when it returns no
\* handle_message call is running or waiting.
C19_DrainOnShutdown ==
    /\ [](phase = "returned" =>
            (running = {} /\ QueuedJobs = <<>> /\ started = submitted))
    /\ [][/\ (phase # "returned" /\ phase' = "returned") => phase = "joining"
          /\ phase \in {"joining", "returned"} =>
                (received' = received /\ submitted' = submitted)]_vars

\* simple_start has returned after more dispatches than the pool has
\* threads, all of them started and over.
C19_Witness ==
    /\ phase = "returned"
    /\ submitted > PoolSize
    /\ started = submitted /\ running = {}

\* C20. Transport failure: when the listener reports a transport error
\* simple_start returns that error; the registry is never changed; the
\* dispatches submitted before the error stay with the pool and are all
\* over when simple_start returns. (simple_start ends without returning
\* the error only when a failed handler has ended a pool thread.)
C20_TransportFailure ==
    /\ [](phase = "returned" => (call.res = "Err" /\ started = submitted /\ running = {}))
    /\ [](phase = "panicked" => alive < PoolSize)
    /\ [][/\ muxers' = muxers
          /\ (phase = "running" /\ phase' = "joining") =>
                (QueuedJobs' = QueuedJobs /\ running' = running)]_vars

\* The listener has reported the error while a dispatch runs and another
\* waits.
C20_Witness ==
    /\ phase = "joining"
    /\ running # {}
    /\ QueuedJobs # <<>>

\* The updates whose dispatch a pool thread is running.
RunningIds == {job.id : job \in running}

\* C21. A blocking handler stalls only its own worker: while fewer than 4
\* dispatches are running (their handlers sleeping or waiting) in a pool
\* that has its 4 threads, the listener can take the next update, a
\* message waiting in the channel can be started at once, and each
\* running dispatch can come to its end whatever the others do.
C21_BlockingStallsOwnWorker ==
    (phase = "running" /\ alive = PoolSize /\ Cardinality(running) < PoolSize) =>
        /\ received < MaxUpdates => (ENABLED ListenMessage /\ ENABLED ListenOther)
        /\ QueuedJobs # <<>> => ENABLED WorkerTake
        /\ \A job \in running : ENABLED (WorkerFinish /\ running' = running \ {job})

\* The dispatches of the first three messages are still running; the two
\* messages received after them have been dispatched and are over.
C21_Witness ==
    /\ phase = "running"
    /\ RunningIds = {1, 2, 3}
    /\ started = 5 /\ submitted = 5
    /\ result = "returned"

\* The update numbers of the dispatches waiting in the channel, in order.
PoolJobs == [k \in 1..Len(QueuedJobs) |-> QueuedJobs[k].id]

\* C22. Exactly-once dispatch: an update with a message makes
\* simple_start submit exactly one dispatch, which carries the number of
\* that update; an update without a message submits none and starts none;
\* a submitted dispatch waits in the channel or has been started, never
\* both and never twice. (The pool has a thread to give it to: no handler
\* failure has ended them all.)
C22_ExactlyOnce ==
    /\ [](/\ \A a, b \in 1..Len(PoolJobs) : a # b => PoolJobs[a] # PoolJobs[b]
          /\ \A a \in 1..Len(PoolJobs) : PoolJobs[a] \notin RunningIds
          /\ Len(PoolJobs) + started = submitted
          /\ Cardinality(RunningIds) = Cardinality(running)
          /\ Cardinality(running) <= started
          /\ submitted <= received)
    /\ [][/\ (ListenMessage /\ alive > 0) =>
                /\ submitted' = submitted + 1
                /\ PoolJobs' = Append(PoolJobs, received')
                /\ running' = running /\ started' = started
          /\ ListenOther =>
                /\ submitted' = submitted
                /\ queue' = queue /\ running' = running /\ started' = started]_vars

\* Of three updates two carried a message: two dispatches were submitted,
\* both were started, one is over.
C22_Witness ==
    /\ received = 3
    /\ submitted = 2 /\ started = 2
    /\ Cardinality(running) = 1

\* The routes of the category handlers invoked in the last dispatch, in
\* the order of the calls.
CategoryCalls ==
    LET calls == SelectSeq(trace, LAMBDA c : IsCategoryRoute(muxers[c.mux]))
    IN  [k \in 1..Len(calls) |-> calls[k].mux]

\* The category routes that match message m, in registration order.
MatchingRoutes(m) ==
    SelectSeq([i \in 1..Len(muxers) |-> i],
              LAMBDA i : IsCategoryRoute(muxers[i]) /\ Applies(muxers[i], m) /\ HandedOn(m))

FailedHandlers == IF result = "panicked" THEN {trace[Len(trace)].f} ELSE {}

\* The messages with the type and payload of the last one dispatched, from
\* any chat.
SamePayload == {m \in Messages : m.msg = msg.msg}

\* The category of message type t: the route variants walked for it.
CategoryOf(t) ==
    IF t = "Text" THEN {"TextMux", "PatternMux"}
    ELSE {kind \in {KindOf(fn) : fn \in {"photo_fn", "video_fn", "document_fn",
                       "sticker_fn", "audio_fn", "voice_fn", "all_music_fn",
                       "contact_fn", "location_fn", "new_participant_fn",
                       "left_participant_fn", "new_title_fn", "new_chat_photo_fn",
                       "delete_chat_photo_fn", "group_chat_created_fn"}} :
             t \in TypesOf(kind)}

\* C24 as stated. Classification depends only on the payload tag: a
\* message of the same type and payload from another chat is dispatched
\* to the same routes in the same order, and the category handlers called
\* are those of the one category of the message's type.
C24_TagOnly ==
    Dispatched =>
        /\ \A m \in SamePayload : handle_message(muxers, m, FailedHandlers).calls = trace
        /\ \A k \in 1..Len(CategoryCalls) :
              muxers[CategoryCalls[k]].kind \in CategoryOf(msg.msg.t)

\* C24 as amended. Classification depends on the type and payload of the
\* message and, for DeleteChatPhoto and GroupChatCreated, on whether the
\* chat is a group chat: two messages that agree in these are dispatched
\* to the same routes in the same order, whatever else differs.
C24_TagAndGroup ==
    Dispatched =>
        /\ \A m \in SamePayload :
              (HandedOn(m) <=> HandedOn(msg)) =>
                  handle_message(muxers, m, FailedHandlers).calls = trace
        /\ \A k \in 1..Len(CategoryCalls) :
              muxers[CategoryCalls[k]].kind \in CategoryOf(msg.msg.t)

\* A photo message of a channel has run the photo route and the observer,
\* as one of a private chat does.
C24_Witness ==
    /\ result = "returned"
    /\ msg.msg.t = "Photo" /\ msg.chat = "Channel"
    /\ Len(muxers) = 2
    /\ muxers[1].kind = "PhotoMux" /\ muxers[2].kind = "AnyMux"
    /\ Len(trace) = 2
    /\ handle_message(muxers, [msg EXCEPT !.chat = "Private"], {}).calls = trace

\* C25. Registry read-only while running: simple_start and the dispatches
\* it runs leave the registry (and the username the commands were
\* compiled with) as they were when simple_start was called, and no
\* registration call can be made while simple_start runs.
C25_RegistryReadOnly ==
    /\ [](phase # "setup" => ~ENABLED Register)
    /\ [][(phase # "setup" \/ phase' # "setup") =>
             (muxers' = muxers /\ username' = username)]_vars

\* simple_start runs and a dispatch has called the handlers of both routes
\* of the registry.
C25_Witness ==
    /\ phase = "running" /\ call.fn = "simple_start"
    /\ result = "returned"
    /\ Len(muxers) = 2 /\ Len(trace) = 2

\* The route a registration call has just added.
Added == muxers'[Len(muxers')]

\* The patterns of the model that are a plain word.
PlainWords == {p \in Patterns : \A k \in 1..Len(p) : p[k] \in {"t", "e"}}

\* C26. Free regex is not transformed: regex and simple_regex register
\* the pattern as it was given, so that a plain word fires for every text
\* it occurs in, anywhere; command and simple_command register what
\* modify_command makes of it, never the pattern as given.
C26_FreeRegex ==
    /\ [][Len(muxers') > Len(muxers) =>
             /\ call'.fn \in {"regex", "simple_regex"} => Added.re = call'.arg
             /\ call'.fn \in {"command", "simple_command"} =>
                   /\ Added.re = modify_command(call'.arg, username)
                   /\ Added.re # call'.arg]_vars
    /\ []((Dispatched /\ msg.msg.t = "Text") =>
             \A i \in 1..Len(muxers) :
                 (IsTextRoute(muxers[i]) /\ muxers[i].re \in PlainWords) =>
                     /\ Invoked(i) => IsSubstring(muxers[i].re, msg.msg.v)
                     /\ (IsSubstring(muxers[i].re, msg.msg.v) /\ Reached(i)) => Count(i) = 1)

\* regex(t) and command(t) are registered; the text x/t has run the
\* handler of the first and not that of the second.
C26_Witness ==
    /\ result = "returned" /\ msg.msg.v = <<"x", "/", "t">>
    /\ Len(muxers) = 2
    /\ muxers[1].re = <<"t">>
    /\ muxers[2].re = modify_command(<<"t">>, username)
    /\ Count(1) = 1 /\ Count(2) = 0

\* The calls that set the reply markup.
MarkupCalls == {"keyboard", "hide", "force", "markup"}

\* The reply markup a call of keyboard, hide, force or markup names.
MarkupGiven(c) ==
    CASE c.fn = "keyboard" -> [tag |-> "Keyboard", v |-> c.arg]
      [] c.fn = "hide" -> [tag |-> "KeyboardHide", v |-> c.arg]
      [] c.fn = "force" -> [tag |-> "ForceReply", v |-> c.arg]
      [] c.fn = "markup" -> c.arg

\* C27. Reply markup is last-wins: on each of the eight builders that have
\* the methods, a call of keyboard, hide, force or markup leaves the
\* builder with the reply markup that call names, whatever it held before;
\* a builder just made holds none; and end() sends what the builder holds
\* (so the one of the last call, or none if there was no call) and leaves
\* it in the builder.
C27_MarkupLastWins ==
    [][/\ call'.fn \in MarkupCalls =>
             /\ builder'.type = builder.type
             /\ builder.type \in MarkupTypes
             /\ builder'.reply_markup = <<MarkupGiven(call')>>
       /\ call'.fn \notin (MarkupCalls \cup {"end"}) =>
             builder'.reply_markup = <<>>
       /\ call'.fn = "end" =>
             /\ Len(outbox') = Len(outbox) + 1
             /\ outbox'[Len(outbox')].reply_markup = builder.reply_markup
             /\ builder' = builder]_vars

\* One builder has sent twice: first with the keyboard it was given, then,
\* after hide, with the hide markup and nothing of the keyboard.
C27_Witness ==
    /\ Len(outbox) = 2
    /\ call.fn = "end"
    /\ outbox[1].reply_markup = <<[tag |-> "Keyboard", v |-> TRUE]>>
    /\ outbox[2].reply_markup = <<[tag |-> "KeyboardHide", v |-> TRUE]>>

\* C28. Send failure goes back to the handler: the chat id of a builder
\* is the one given to send, or the one of the chat of the message given
\* to answer, and no later call changes it; each call of end() adds
\* exactly one request, to that chat id, and returns what the Api
\* answered to that request, Ok or Err; no other call makes a request; and
\* end() changes neither the builder nor the registry, whatever the answer.
C28_SendFailure ==
    [][/\ call'.fn = "send" => builder'.chat_id = call'.arg
       /\ call'.fn = "answer" => builder'.chat_id = call'.arg.chat.id
       /\ call'.fn \notin {"send", "answer"} => builder'.chat_id = builder.chat_id
       /\ call'.fn # "end" => outbox' = outbox
       /\ call'.fn = "end" =>
             /\ Len(outbox') = Len(outbox) + 1
             /\ SubSeq(outbox', 1, Len(outbox)) = outbox
             /\ outbox'[Len(outbox')].chat_id = builder.chat_id
             /\ outbox'[Len(outbox')].method = MethodOf(builder.type)
             /\ call'.res = outbox'[Len(outbox')].result
             /\ builder' = builder
             /\ muxers' = muxers]_vars

\* A builder for chat 2 has sent once, the Api has answered Err, and end
\* has returned Err; the builder is as it was.
C28_Witness ==
    /\ call.fn = "end" /\ call.res = "Err"
    /\ Len(outbox) = 1
    /\ outbox[1].result = "Err"
    /\ outbox[1].chat_id = 2
    /\ builder.chat_id = 2

\* The words of a shorthand put together again, the group (?:@username)?
\* in the first of them: what modify_command has before it looks at the
\* anchors.
JoinedPattern(orig, u) ==
    LET ws == split_whitespace(orig)
    IN  IF Len(ws) = 0 THEN <<>>
        ELSE LET dollar == ends_with(ws[1], <<"$">>)
                 word == IF dollar THEN SubSeq(ws[1], 1, Len(ws[1]) - 1) ELSE ws[1]
             IN  word \o <<"(", "?", ":", "@">> \o u \o <<")", "?">>
                 \o (IF dollar THEN <<"$">> ELSE <<>>) \o RestWords(ws)

\* C29. Start-anchor gating: when the joined pattern does not start with
\* ^/, what modify_command puts before it is a `/` exactly if the joined
\* pattern does not start with `/`, and before that a `^` exactly if the
\* shorthand as it was given does not start with `^`; when it starts with
\* ^/ nothing is put before it. (^t gives /^t(?:@b)?$, with no `^` in
\* front.)
C29_StartAnchorGating ==
    call.fn = "modify_command" =>
        LET pat == JoinedPattern(call.arg, username)
            slash == IF starts_with(pat, <<"/">>) THEN <<>> ELSE <<"/">>
            caret == IF starts_with(call.arg, <<"^">>) THEN <<>> ELSE <<"^">>
            front == IF starts_with(pat, <<"^", "/">>) THEN <<>> ELSE caret \o slash
        IN  \E suf \in {<<>>, <<"$">>} : call.res = front \o pat \o suf

\* The shorthand ^t has been compiled: a `/` was put in front of the
\* joined pattern and no `^` before it, though the string then started
\* with `/`.
C29_Witness ==
    /\ call.fn = "modify_command"
    /\ call.arg = <<"^", "t">>
    /\ username = <<"b">>
    /\ call.res = <<"/", "^", "t", "(", "?", ":", "@", "b", ")", "?", "$">>

\* C30 as stated. Shorthand without tokens: for a shorthand that is empty
\* or only whitespace the result is the shorthand as given with ^/ in
\* front and $ after it.
C30_NoTokensUnchanged ==
    (call.fn = "modify_command" /\ split_whitespace(call.arg) = <<>>) =>
        call.res = <<"^", "/">> \o call.arg \o <<"$">>

\* C30, amended. Shorthand without tokens: for a shorthand that is empty
\* or only whitespace the result is ^/$, whatever the whitespace and the
\* username were: the whitespace is not kept and no username group is
\* inserted.
C30_NoTokens ==
    (call.fn = "modify_command" /\ split_whitespace(call.arg) = <<>>) =>
        call.res = <<"^", "/", "$">>

\* A shorthand of two spaces has been compiled for the bot b.
C30_Witness ==
    /\ call.fn = "modify_command"
    /\ call.arg = <<" ", " ">>
    /\ username = <<"b">>
    /\ call.res = <<"^", "/", "$">>

\* C31. Termination of the run loop: while the pool has a thread,
\* simple_start leaves the listening only when the transport fails (every
\* update is answered with Continue, and join_all follows the failure);
\* once the transport has failed and every handler comes to its end
\* without a panic, simple_start returns; and as long as a handler has not
\* come to its end its thread is not free and simple_start has not
\* returned, nor can it.
C31_Termination ==
    /\ [][/\ (received' # received /\ alive > 0) => phase' = "running"
          /\ (phase = "running" /\ phase' # "running" /\ alive > 0) =>
                /\ received' = received
                /\ phase' = "joining"
                /\ queue' = queue \o [k \in 1..PoolSize |-> Join]]_vars
    /\ [](phase = "joining" => <>(phase = "returned" \/ alive < PoolSize))
    /\ [](running # {} =>
             /\ phase \in {"running", "joining"}
             /\ Cardinality(running) + joined <= alive
             /\ ~ENABLED JoinDone)

\* The transport has failed with dispatches under way, every handler has
\* come to its end and simple_start has returned the listener's error.
C31_Witness ==
    /\ phase = "returned"
    /\ call.res = "Err"
    /\ submitted >= 1
    /\ started = submitted
    /\ running = {}

\* C32. No ordering across events: of two dispatches that are running,
\* the one of the later message can come to its end while the one of the
\* earlier message still runs, whatever their chats; while a dispatch runs
\* and a thread is waiting, the dispatch of a later message can be
\* started. (The order inside one dispatch is that of C18.)
C32_NoOrderAcrossEvents ==
    /\ \A a, b \in running :
          a.id < b.id => ENABLED (WorkerFinish /\ running' = running \ {b})
    /\ (running # {} /\ QueuedJobs # <<>> /\ Head(queue).type = "NewJob"
           /\ alive - Cardinality(running) - joined > 0) =>
          ENABLED (WorkerTake /\ running' = running \cup {Head(queue)})

\* The dispatch of the first message is still running; the second
\* message, of the same chat, was received after it, and its dispatch has
\* been started and is over.
C32_Witness ==
    /\ started = 2
    /\ result = "returned"
    /\ \E a \in running :
          /\ running = {a}
          /\ a.id = 1
          /\ msg.chat = a.m.chat

\* The route kind of each of the two events of a group chat.
GroupEventKind(t) ==
    IF t = "DeleteChatPhoto" THEN "DeleteChatPhotoMux" ELSE "GroupChatCreatedMux"

IsPrefix(a, b) == Len(a) <= Len(b) /\ a = SubSeq(b, 1, Len(a))

====
